---- MODULE Spec2Model ----
(***************************************************************************)
(* Playback-engine abstraction layer of the IPTV player:                   *)
(*   - the fault taxonomy and classifier      (player/PlayerError.ts)      *)
(*   - the recovery coordinator               (player/PlayerFactory.ts,    *)
(*                                             class ErrorRecoveryStrategy)*)
(*   - the embedded engine                    (implementations/            *)
(*                                             AVPlayPlayerImpl.ts)        *)
(* Spec   : the recovery coordinator, driven by recover()/clearAll() and   *)
(*          by the timer and retryFn completions of the calls in flight.   *)
(* SpecAV : one AVPlayPlayerImpl instance and the native player under it.  *)
(***************************************************************************)
EXTENDS Integers, Sequences, FiniteSets, TLC

(***************************************************************************)
(* Bounds of the model.                                                    *)
(***************************************************************************)
\* recover() calls that may be in flight at once on one coordinator
MaxCalls == 2

Contexts == {"a", "b"}
Slots == 1 .. MaxCalls
\* a RetryState object is referenced by the map or by a call in flight
ObjIds == 1 .. (MaxCalls + Cardinality(Contexts))

(***************************************************************************)
(* Fault taxonomy (PlayerError.ts).                                        *)
(***************************************************************************)
PlayerErrorType ==
  {"network", "media", "drm", "unsupported_format", "unsupported_audio",
   "timeout", "unknown"}

\* code, message and details are carried along and read by nobody in this
\* layer: an error is its kind and its fatal flag.
createPlayerError(type, fatal) == [type |-> type, fatal |-> fatal]

getErrorRecoveryStrategy_AudioRetry(error) ==
  CASE error.type = "network" -> IF error.fatal THEN "fail" ELSE "retry"
    [] error.type = "unsupported_audio" -> "retry"
    [] error.type = "unsupported_format" -> "fallback"
    [] error.type = "media" -> IF error.fatal THEN "fail" ELSE "retry"
    [] error.type = "drm" -> "fail"
    [] error.type = "timeout" -> "retry"
    [] OTHER -> "fail"

getErrorRecoveryStrategy(error) ==
  CASE error.type = "network" -> IF error.fatal THEN "fail" ELSE "retry"
    [] error.type = "unsupported_audio" -> "skip"
    [] error.type = "unsupported_format" -> "fallback"
    [] error.type = "media" -> IF error.fatal THEN "fail" ELSE "retry"
    [] error.type = "drm" -> "fail"
    [] error.type = "timeout" -> "retry"
    [] OTHER -> "fail"

isRecoverableError_IgnoreFatal(error) ==
  getErrorRecoveryStrategy(error) \in {"retry", "fallback", "skip"}

isRecoverableError(error) ==
  IF error.fatal
    THEN FALSE
    ELSE getErrorRecoveryStrategy(error) \in {"retry", "fallback", "skip"}

\* MediaError.code values of the HTML media element
MediaErrCodes ==
  {"MEDIA_ERR_ABORTED", "MEDIA_ERR_NETWORK", "MEDIA_ERR_DECODE",
   "MEDIA_ERR_SRC_NOT_SUPPORTED", "other", "null"}

classifyMediaError_Unknown(mediaError) == createPlayerError("unknown", FALSE)

classifyMediaError(mediaError) ==
  CASE mediaError = "null" ->
         createPlayerError("unknown", FALSE)
    [] mediaError = "MEDIA_ERR_ABORTED" ->
         createPlayerError("media", FALSE)
    [] mediaError = "MEDIA_ERR_NETWORK" ->
         createPlayerError("network", FALSE)
    [] mediaError = "MEDIA_ERR_DECODE" ->
         createPlayerError("media", TRUE)
    [] mediaError = "MEDIA_ERR_SRC_NOT_SUPPORTED" ->
         createPlayerError("unsupported_format", TRUE)
    [] OTHER ->
         createPlayerError("unknown", FALSE)

\* The errors PlayerFactory itself throws: an unsupported platform
\* (createPlayer), an unsupported stream type (createWebPlayer) and an
\* implementation that cannot be loaded (createTizenPlayer, createWebPlayer).
FactoryErrors ==
  { createPlayerError("unsupported_format", TRUE),
    createPlayerError("unknown", TRUE) }

\* The errors handed to recover(): every kind with either fatal flag, and the
\* errors the classifier and the factory produce.
RecoverErrors ==
  { createPlayerError(t, f) : t \in PlayerErrorType, f \in BOOLEAN }
    \cup { classifyMediaError(m) : m \in MediaErrCodes }
    \cup FactoryErrors

(***************************************************************************)
(* Recovery coordinator (PlayerFactory.ts, class ErrorRecoveryStrategy).   *)
(***************************************************************************)
DEFAULT_maxAttempts == 3
DEFAULT_initialDelayMs == 1000
DEFAULT_maxDelayMs == 10000
DEFAULT_backoffMultiplier == 2

\* backoffMultiplier is a JavaScript number: kept as the fraction num/den.
RetryConfig(maxAttempts, initialDelayMs, maxDelayMs, num, den) ==
  [maxAttempts |-> maxAttempts, initialDelayMs |-> initialDelayMs,
   maxDelayMs |-> maxDelayMs, backoffMultiplier |-> [num |-> num, den |-> den]]

DEFAULT_CONFIG ==
  RetryConfig(DEFAULT_maxAttempts, DEFAULT_initialDelayMs, DEFAULT_maxDelayMs,
              DEFAULT_backoffMultiplier, 1)

\* Configurations a coordinator is constructed with: createDefault(), and
\* create(partial) overriding some of the defaults.
Configs ==
  { DEFAULT_CONFIG,
    \* create({maxAttempts: 1})
    RetryConfig(1, DEFAULT_initialDelayMs, DEFAULT_maxDelayMs,
                DEFAULT_backoffMultiplier, 1),
    \* create({maxAttempts: 4, initialDelayMs: 3000}): the cap is reached
    RetryConfig(4, 3000, DEFAULT_maxDelayMs, DEFAULT_backoffMultiplier, 1),
    \* create({maxDelayMs: 500}): the initial delay exceeds the cap
    RetryConfig(DEFAULT_maxAttempts, DEFAULT_initialDelayMs, 500,
                DEFAULT_backoffMultiplier, 1),
    \* create({initialDelayMs: 1, backoffMultiplier: 1.5})
    RetryConfig(DEFAULT_maxAttempts, 1, DEFAULT_maxDelayMs, 3, 2),
    \* create({maxAttempts: 0})
    RetryConfig(0, DEFAULT_initialDelayMs, DEFAULT_maxDelayMs,
                DEFAULT_backoffMultiplier, 1) }

NoObj == 0
NoState == [attempts |-> -1, nextDelay |-> -1]
IdleCall == [pc |-> "idle", ctx |-> "", obj |-> NoObj, delay |-> -1, waited |-> -1]
NoError == [type |-> "", fatal |-> FALSE]

RecoveryResult(success, action, nextAttempt) ==
  [success |-> success, action |-> action, nextAttempt |-> nextAttempt]
\* the call has not returned: it is suspended in sleep() or in retryFn()
Pending == RecoveryResult(FALSE, "pending", 0)

VARIABLES
  config,       \* this.config
  retryStates,  \* this.retryStates: context -> RetryState object (NoObj: none)
  heap,         \* the RetryState objects: [attempts, nextDelay]
  calls,        \* the recover() calls in flight, one per slot
  clean,        \* per context: since its RetryState was created, the calls
                \* ran one after another and clearAll() was not called
  invoked,      \* per context: retryFn invocations since then, while clean
  fails,        \* per context: failed retryFn completions since then, while clean
  last          \* the step just taken: operation, arguments, result returned

rcVars == <<config, retryStates, heap, calls, invoked, fails, clean, last>>

(***************************************************************************)
(* State of one AVPlayPlayerImpl instance and of the native player.        *)
(***************************************************************************)
VARIABLES
  avplay,       \* this.avplay is set (webapis.avplay) or null
  initialized,  \* this.initialized
  avState,      \* this.state: PlayerState
  volume,       \* this.volume, in tenths
  muted,        \* this.muted
  currentTime,  \* this.currentTime, in half milliseconds (seconds * 2000)
  duration,     \* this.duration, in half milliseconds
  timeTrackingInterval,  \* the polling interval is set
  eventListeners,        \* event types that have a listener registered
  native,       \* state of the native player (webapis.avplay.getState())
  prepares,     \* prepareAsync calls whose callback has not run: their urls
  avLast        \* the engine step just taken and what it did

avVars == <<avplay, initialized, avState, volume, muted, currentTime, duration,
            timeTrackingInterval, eventListeners, native, prepares, avLast>>

(***************************************************************************)
(* State of one ShakaPlayerImpl instance (adaptive engine), of one          *)
(* NativePlayerImpl instance with its video element, and the outcome of the *)
(* last PlayerFactory.createPlayer call.                                    *)
(***************************************************************************)
VARIABLES
  shInitialized,  \* ShakaPlayerImpl.initialized
  shState,        \* ShakaPlayerImpl.state
  shLoads,        \* shakaPlayer.load() promises not yet settled
  shAbr,          \* shakaPlayer configuration abr.enabled
  shLast,         \* the step of the adaptive engine just taken
  npInitialized,  \* NativePlayerImpl.initialized
  npVolume,       \* videoElement.volume, in tenths
  npMuted,        \* videoElement.muted
  npQueue,        \* events the video element has queued for dispatch
  npState,        \* NativePlayerImpl.state
  npLast,         \* the step of the progressive engine just taken
  fcLast,         \* the last createPlayer call: inputs and outcome
  retryStatesY    \* retryStates of a second ErrorRecoveryStrategy instance

shVars == <<shInitialized, shState, shLoads, shAbr, shLast>>

npVars == <<npInitialized, npVolume, npMuted, npQueue, npState, npLast>>

fcVars == <<fcLast>>

yVars == <<retryStatesY>>

(***************************************************************************)
(* State of the segment-only engine: one HLSPlayerImpl instance with the   *)
(* segment library and the video element it drives.                        *)
(***************************************************************************)
VARIABLES
  hls,             \* HLSPlayerImpl.hls is set (FALSE: null, native HLS)
  hlsInitialized,  \* HLSPlayerImpl.initialized
  hlsState,        \* HLSPlayerImpl.state
  hlsAutoplay,     \* videoElement.autoplay
  hlsSource,       \* the source handed over by load(): none, pending, ready, failed
  hlsPlayed,       \* play() has been called since the last load()
  hlsLast          \* the step of the segment-only engine just taken

hlsVars == <<hls, hlsInitialized, hlsState, hlsAutoplay, hlsSource, hlsPlayed,
             hlsLast>>

(***************************************************************************)
(* State of the VideoPlayer component: its mount effect with the           *)
(* asynchronous initPlayer(), and the engine the effect creates.           *)
(***************************************************************************)
VARIABLES
  vpMounted,   \* the flag 'mounted' of the effect's closure
  vpPc,        \* where initPlayer() is: the call it awaits, or start / done
  vpPc2,       \* where loadNewStream() is: the call it awaits, or idle
  vpRef,       \* playerInstanceRef.current is set
  vpAutoPlay,  \* the autoPlay prop
  vpEngine,    \* the engine of createPlayer: the calls made on it so far
  vpLoading,   \* isLoading of the player store
  vpError,     \* error of the player store is set
  vpLast       \* the step just taken and whether the component was mounted

vpVars == <<vpMounted, vpPc, vpPc2, vpRef, vpAutoPlay, vpEngine, vpLoading, vpError,
            vpLast>>

vars == <<rcVars, avVars, shVars, npVars, fcVars, yVars, hlsVars, vpVars>>

getAttempts(context) ==
  IF retryStates[context] = NoObj THEN 0 ELSE heap[retryStates[context]].attempts

isRetrying(context) == retryStates[context] # NoObj

InFlight(context) == { s \in Slots : calls[s].pc # "idle" /\ calls[s].ctx = context }

\* Objects still referenced once the map is m and the calls are cs.
Live(m, cs) ==
  { m[c] : c \in Contexts } \cup { cs[s].obj : s \in Slots }

\* Unreferenced objects are dropped (garbage collection).
Collect(h, m, cs) ==
  [o \in ObjIds |-> IF o \in Live(m, cs) THEN h[o] ELSE NoState]

FreshObj == CHOOSE o \in ObjIds : o \notin Live(retryStates, calls)
                                  /\ \A p \in ObjIds : p \notin Live(retryStates, calls) => o <= p

Min(a, b) == IF a <= b THEN a ELSE b

\* Math.floor(delay * backoffMultiplier)
NextDelay(delay, mult) == (delay * mult.num) \div mult.den

(***************************************************************************)
(* The embedded engine: AVPlayPlayerImpl and the native player it wraps.   *)
(***************************************************************************)
MaxPending == 2

Streams == {"A"}

PlayerState == {"idle", "loading", "playing", "paused", "buffering", "error", "ended"}

PlayerEventType == {"statechange", "timeupdate", "durationchange", "volumechange",
                    "qualitychange", "error", "buffering", "ended"}

\* Event types the caller registers listeners for.
ListenedEvents == {"statechange"}

\* Volumes are in tenths, times of the engine in half milliseconds
\* (seconds * 2000), times of the native player in milliseconds.
VolumeInputs == {-5, 15}

InitVolumes == {10}

SeekInputs == {3001, 4000}

NativeTimesMs == {1500, 2000}

NativeDurationsMs == {90001}

NativeStates == {"NONE", "IDLE", "READY", "PLAYING", "PAUSED", "ERROR"}

\* The states in which the native player accepts a call; elsewhere it throws.
NativeLegal(call) ==
  CASE call = "open" -> {"NONE", "IDLE"}
    [] call = "prepareAsync" -> {"IDLE"}
    [] call = "play" -> {"READY", "PAUSED"}
    [] call = "pause" -> {"PLAYING"}
    [] call = "stop" -> {"PLAYING", "PAUSED"}
    [] call \in {"seekTo", "getDuration", "getCurrentTime", "setSelectTrack"} ->
         {"READY", "PLAYING", "PAUSED"}
    [] call = "setStreamingProperty" -> {"IDLE"}
    [] OTHER -> NativeStates

\* The native state after an accepted call.
NativeAfter(call, n) ==
  CASE call = "open" -> "IDLE"
    [] call = "play" -> "PLAYING"
    [] call = "pause" -> "PAUSED"
    [] call = "stop" -> "IDLE"
    [] call = "close" -> "NONE"
    [] OTHER -> n

\* The native state after a loading or playback failure.
NativeFaulted(n) == {n, "ERROR"}

\* A stream is open in the native player.
NativeHasStream ==
  native \in {"READY", "PLAYING", "PAUSED"} \/ (native = "IDLE" /\ prepares # <<>>)

engVars == <<avplay, initialized, avState, volume, muted, currentTime, duration,
             timeTrackingInterval, eventListeners>>

Ev(type, data) == [type |-> type, data |-> data]

setState_Always(old, newState) == <<Ev("statechange", newState)>>

\* The events emitted by setState(newState) when the state is old.
setState(old, newState) ==
  IF old # newState THEN <<Ev("statechange", newState)>> ELSE <<>>

\* What a step of the engine did: the operation, the native state and the
\* initialized flag it found, whether it failed and with what error, the
\* native calls it made, the events it emitted, and whether it set the
\* polling interval.
AvRecord(op, threw, err, ncalls, events, tstart) ==
  [op |-> op, before |-> native, wasInit |-> initialized, threw |-> threw,
   err |-> err, ncalls |-> ncalls, events |-> events, tstart |-> tstart,
   nfault |-> FALSE, arg |-> "", ms |-> -1]

Resolved(op, ncalls, events) == AvRecord(op, FALSE, NoError, ncalls, events, FALSE)

Rejected(op, err, ncalls, events) == AvRecord(op, TRUE, err, ncalls, events, FALSE)

\* The native player threw or signalled a fault in the step (nfault): the
\* step rejects from its catch block, or goes on because the catch is empty.
Thrown(op, err, ncalls, events) ==
  [Rejected(op, err, ncalls, events) EXCEPT !.nfault = TRUE]

Swallowed(op, ncalls, events) ==
  [Resolved(op, ncalls, events) EXCEPT !.nfault = TRUE]

\* new AVPlayPlayerImpl()
AvConstructed ==
  /\ avplay = FALSE
  /\ initialized = FALSE
  /\ avState = "idle"
  /\ volume = 10
  /\ muted = FALSE
  /\ currentTime = 0
  /\ duration = 0
  /\ timeTrackingInterval = FALSE
  /\ eventListeners = {}
  /\ native = "NONE"
  /\ prepares = <<>>
  /\ avLast = Resolved("new", <<>>, <<>>)

\* What a step of a web engine did.
WebRecord(op, wasInit, threw, err, events, arg) ==
  [op |-> op, wasInit |-> wasInit, threw |-> threw, err |-> err,
   events |-> events, arg |-> arg]

\* new ShakaPlayerImpl()
ShConstructed ==
  /\ shInitialized = FALSE
  /\ shState = "idle"
  /\ shLoads = 0
  /\ shAbr = TRUE
  /\ shLast = WebRecord("new", FALSE, FALSE, NoError, <<>>, "")

\* new NativePlayerImpl(); the element volume and muted are the defaults of
\* a video element until initialize creates it.
NpConstructed ==
  /\ npInitialized = FALSE
  /\ npVolume = 10
  /\ npMuted = FALSE
  /\ npQueue = <<>>
  /\ npState = "idle"
  /\ npLast = WebRecord("new", FALSE, FALSE, NoError, <<>>, "")

NoCreate ==
  [streamUrl |-> <<>>, platform |-> "", preferredPlayer |-> "",
   imports |-> {}, returned |-> FALSE, player |-> "", initialized |-> FALSE,
   state |-> "", err |-> NoError]

FcConstructed == fcLast = NoCreate

\* a second coordinator, new ErrorRecoveryStrategy(config): an empty map
YConstructed == retryStatesY = [c \in Contexts |-> NoState]

\* The VideoPlayer component before it is mounted; no engine exists.
VpUnmounted ==
  /\ vpMounted = FALSE
  /\ vpPc = "start"
  /\ vpPc2 = "idle"
  /\ vpRef = FALSE
  /\ vpAutoPlay = FALSE
  /\ vpEngine = [created |-> FALSE, initialized |-> FALSE, loaded |-> FALSE,
                 played |-> FALSE, destroyed |-> FALSE]
  /\ vpLoading = FALSE
  /\ vpError = FALSE
  /\ vpLast = [op |-> "init", mounted |-> FALSE]

\* new HLSPlayerImpl()
HlsConstructed ==
  /\ hls = FALSE
  /\ hlsInitialized = FALSE
  /\ hlsState = "idle"
  /\ hlsAutoplay = FALSE
  /\ hlsSource = "none"
  /\ hlsPlayed = FALSE
  /\ hlsLast = WebRecord("init", FALSE, FALSE, NoError, <<>>, "")

Init ==
  /\ config \in Configs
  /\ retryStates = [c \in Contexts |-> NoObj]
  /\ heap = [o \in ObjIds |-> NoState]
  /\ calls = [s \in Slots |-> IdleCall]
  /\ invoked = [c \in Contexts |-> 0]
  /\ fails = [c \in Contexts |-> 0]
  /\ clean = [c \in Contexts |-> TRUE]
  /\ last = [op |-> "init", ctx |-> "", err |-> NoError,
             result |-> Pending]
  /\ AvConstructed
  /\ ShConstructed
  /\ NpConstructed
  /\ FcConstructed
  /\ YConstructed
  /\ HlsConstructed
  /\ VpUnmounted

(***************************************************************************)
(* recover() and the continuations of a suspended call.                    *)
(***************************************************************************)
Fail == RecoveryResult(FALSE, "fail", 0)

clearRetryState_Keep(map, context) == map

clearRetryState_All(map, context) == [c \in Contexts |-> NoObj]

clearRetryState(map, context) == [map EXCEPT ![context] = NoObj]

\* delay = Math.min(state.nextDelay, this.config.maxDelayMs)
BackoffDelay_NoCap(state) == state.nextDelay

BackoffDelay(state) == Min(state.nextDelay, config.maxDelayMs)

\* the state.attempts >= maxAttempts check on entry of retryWithBackoff
AttemptsReached(state) == state.attempts >= config.maxAttempts

\* The catch branch of retryWithBackoff: the result returned and the map left.
retryFailed_OffByOne(state, context) ==
  IF config.maxAttempts - state.attempts + 1 > 0
    THEN [result |-> RecoveryResult(FALSE, "retry", state.attempts + 1),
          map |-> retryStates]
    ELSE [result |-> Fail, map |-> clearRetryState(retryStates, context)]

retryFailed_AlwaysClear(state, context) ==
  IF config.maxAttempts - state.attempts > 0
    THEN [result |-> RecoveryResult(FALSE, "retry", state.attempts + 1),
          map |-> clearRetryState(retryStates, context)]
    ELSE [result |-> Fail, map |-> clearRetryState(retryStates, context)]

\* The catch branch without the clearRetryState at exhaustion.
retryFailed_NoDrop(state, context) ==
  IF config.maxAttempts - state.attempts > 0
    THEN [result |-> RecoveryResult(FALSE, "retry", state.attempts + 1),
          map |-> retryStates]
    ELSE [result |-> Fail, map |-> retryStates]

retryFailed(state, context) ==
  LET remainingAttempts == config.maxAttempts - state.attempts
  IN IF remainingAttempts > 0
       THEN [result |-> RecoveryResult(FALSE, "retry", state.attempts + 1),
             map |-> retryStates]
       ELSE [result |-> Fail, map |-> clearRetryState(retryStates, context)]

\* retryWithBackoff from its entry to its first suspension, await sleep(delay),
\* or to its return when the attempts are used up on entry.
retryWithBackoff(s, context, error) ==
  LET created == retryStates[context] = NoObj
      obj == IF created THEN FreshObj ELSE retryStates[context]
      state == IF created
                 THEN [attempts |-> 0, nextDelay |-> config.initialDelayMs]
                 ELSE heap[obj]
      alone == InFlight(context) = {}
      delay == BackoffDelay(state)
  IN /\ invoked' = IF created THEN [invoked EXCEPT ![context] = 0] ELSE invoked
     /\ fails' = IF created THEN [fails EXCEPT ![context] = 0] ELSE fails
     /\ clean' = [clean EXCEPT ![context] = alone /\ (created \/ @)]
     /\ IF AttemptsReached(state)
          THEN /\ retryStates' = clearRetryState(retryStates, context)
               /\ calls' = calls
               /\ heap' = Collect(heap, retryStates', calls')
               /\ last' = [op |-> "recover", ctx |-> context,
                           err |-> error, result |-> Fail]
          ELSE /\ retryStates' = [retryStates EXCEPT ![context] = obj]
               /\ calls' = [calls EXCEPT ![s] =
                              [pc |-> "sleep", ctx |-> context, obj |-> obj,
                               delay |-> delay, waited |-> -1]]
               /\ heap' = [heap EXCEPT ![obj] =
                             [attempts |-> state.attempts + 1,
                              nextDelay |-> NextDelay(delay, config.backoffMultiplier)]]
               /\ last' = [op |-> "recover", ctx |-> context,
                           err |-> error, result |-> Pending]

\* A result returned at once, the coordinator untouched.
ReturnNow(s, context, error, result) ==
  /\ last' = [op |-> "recover", ctx |-> context, err |-> error,
              result |-> result]
  /\ UNCHANGED <<retryStates, heap, calls, invoked, fails, clean>>

recover(s, context, error) ==
  /\ calls[s].pc = "idle"
  /\ \A p \in Slots : p < s => calls[p].pc # "idle"
  /\ IF ~isRecoverableError(error)
       THEN ReturnNow(s, context, error, Fail)
       ELSE LET strategy == getErrorRecoveryStrategy(error)
            IN CASE strategy = "retry" -> retryWithBackoff(s, context, error)
                 [] strategy = "skip" ->
                      ReturnNow(s, context, error, RecoveryResult(TRUE, "skip", 0))
                 [] strategy = "fallback" ->
                      ReturnNow(s, context, error, RecoveryResult(TRUE, "fallback", 0))
                 [] OTHER -> ReturnNow(s, context, error, Fail)
  /\ UNCHANGED config

\* The timer of sleep(delay) fires: the call resumes and invokes retryFn().
SleepDone(s) ==
  /\ calls[s].pc = "sleep"
  /\ calls' = [calls EXCEPT ![s].pc = "retry", ![s].waited = calls[s].delay]
  /\ invoked' = [invoked EXCEPT ![calls[s].ctx] =
                               IF clean[calls[s].ctx] THEN @ + 1 ELSE @]
  /\ last' = [op |-> "sleepDone", ctx |-> calls[s].ctx,
              err |-> NoError, result |-> Pending]
  /\ UNCHANGED <<config, retryStates, heap, fails, clean>>

\* retryFn() resolves.
RetryOk(s) ==
  /\ calls[s].pc = "retry"
  /\ retryStates' = clearRetryState(retryStates, calls[s].ctx)
  /\ calls' = [calls EXCEPT ![s] = IdleCall]
  /\ heap' = Collect(heap, retryStates', calls')
  /\ last' = [op |-> "retryOk", ctx |-> calls[s].ctx,
              err |-> NoError, result |-> RecoveryResult(TRUE, "retry", 0)]
  /\ UNCHANGED <<config, invoked, fails, clean>>

\* retryFn() rejects.
RetryFail(s) ==
  LET out == retryFailed(heap[calls[s].obj], calls[s].ctx)
  IN /\ calls[s].pc = "retry"
     /\ retryStates' = out.map
     /\ calls' = [calls EXCEPT ![s] = IdleCall]
     /\ heap' = Collect(heap, retryStates', calls')
     /\ fails' = [fails EXCEPT ![calls[s].ctx] =
                               IF clean[calls[s].ctx] THEN @ + 1 ELSE @]
     /\ last' = [op |-> "retryFail", ctx |-> calls[s].ctx,
                 err |-> NoError, result |-> out.result]
     /\ UNCHANGED <<config, invoked, clean>>

clearAll_Interrupt ==
  /\ retryStates' = [c \in Contexts |-> NoObj]
  /\ calls' = [s \in Slots |-> IdleCall]
  /\ heap' = Collect(heap, retryStates', calls')
  /\ clean' = [c \in Contexts |-> FALSE]
  /\ invoked' = [c \in Contexts |-> 0]
  /\ fails' = [c \in Contexts |-> 0]
  /\ last' = [op |-> "clearAll", ctx |-> "", err |-> NoError,
              result |-> Pending]
  /\ UNCHANGED config

clearAll ==
  /\ retryStates' = [c \in Contexts |-> NoObj]
  /\ heap' = Collect(heap, retryStates', calls)
  /\ clean' = [c \in Contexts |-> FALSE]
  /\ invoked' = [c \in Contexts |-> 0]
  /\ fails' = [c \in Contexts |-> 0]
  /\ last' = [op |-> "clearAll", ctx |-> "", err |-> NoError,
              result |-> Pending]
  /\ UNCHANGED <<config, calls>>

\* The caller of Spec makes the recover() calls of one context one after
\* another (single caller per context); calls of different contexts overlap.
exceptRc == <<avVars, shVars, npVars, fcVars, yVars, hlsVars, vpVars>>

Next ==
  \/ \E s \in Slots, c \in Contexts, e \in RecoverErrors :
        InFlight(c) = {} /\ recover(s, c, e) /\ UNCHANGED exceptRc
  \/ \E s \in Slots : SleepDone(s) /\ UNCHANGED exceptRc
  \/ \E s \in Slots : RetryOk(s) /\ UNCHANGED exceptRc
  \/ \E s \in Slots : RetryFail(s) /\ UNCHANGED exceptRc
  \/ clearAll /\ UNCHANGED exceptRc

Spec == Init /\ [][Next]_vars

(***************************************************************************)
(* The operations of AVPlayPlayerImpl and the callbacks of the native player. *)
(***************************************************************************)
\* ensureInitialized() throws: the operation rejects and nothing else happens.
ensureInitialized(op) ==
  /\ ~initialized
  /\ avLast' = Rejected(op, createPlayerError("unknown", FALSE), <<>>, <<>>)
  /\ UNCHANGED <<engVars, native, prepares>>

\* this.avplay.getState() inside getAVPlayState(): 'NONE' when it throws.
getAVPlayState == IF avplay THEN native ELSE "NONE"

initialize(avail, vol, mut) ==
  IF initialized
    THEN /\ avLast' = Rejected("initialize", createPlayerError("unknown", FALSE),
                               <<>>, <<>>)
         /\ UNCHANGED <<engVars, native, prepares>>
    ELSE IF ~avail
      THEN /\ avLast' = Rejected("initialize", createPlayerError("unknown", TRUE),
                                 <<>>, <<>>)
           /\ UNCHANGED <<engVars, native, prepares>>
      ELSE /\ avplay' = TRUE
           /\ volume' = vol
           /\ muted' = mut
           /\ initialized' = TRUE
           /\ avState' = "idle"
           /\ avLast' = Resolved("initialize", <<"setListener">>,
                                 setState(avState, "idle"))
           /\ UNCHANGED <<currentTime, duration, timeTrackingInterval,
                          eventListeners, native, prepares>>

\* load() up to the return of prepareAsync; the promise settles in a callback.
load(streamUrl, fault) ==
  \/ ensureInitialized("load")
  \/ /\ initialized
     /\ Len(prepares) < MaxPending
     /\ LET currentState == getAVPlayState
            closes == currentState \notin {"NONE", "IDLE"}
            closed == IF closes THEN NativeAfter("close", native) ELSE native
            calls0 == <<"getState">> \o (IF closes THEN <<"close">> ELSE <<>>)
                        \o <<"open">>
        IN IF closed \in NativeLegal("open") /\ ~fault
             THEN /\ native' = NativeAfter("open", closed)
                  /\ prepares' = Append(prepares, streamUrl)
                  /\ avState' = "loading"
                  /\ avLast' = Resolved("load", calls0 \o <<"prepareAsync">>,
                                        setState(avState, "loading"))
             ELSE /\ native' = closed
                  /\ prepares' = prepares
                  /\ avState' = "error"
                  /\ avLast' = Thrown("load", createPlayerError("network", FALSE),
                                        calls0,
                                        setState(avState, "loading")
                                          \o setState("loading", "error"))
     /\ UNCHANGED <<avplay, initialized, volume, muted, currentTime, duration,
                    timeTrackingInterval, eventListeners>>

Remove(seq, i) == SubSeq(seq, 1, i - 1) \o SubSeq(seq, i + 1, Len(seq))

\* The callback belongs to the stream now open in the native player.
CurrentPrepare(i) == i = Len(prepares) /\ native = "IDLE"

\* The success callback of prepareAsync, with updateDuration().
PrepareOk(i, durationMs) ==
  /\ i \in 1..Len(prepares)
  /\ native' = IF CurrentPrepare(i) THEN "READY" ELSE native
  /\ prepares' = Remove(prepares, i)
  /\ avState' = "paused"
  /\ IF native' \in NativeLegal("getDuration")
       THEN /\ duration' = 2 * durationMs
            /\ avLast' = [Resolved("prepareOk", <<"getDuration">>,
                                   setState(avState, "paused")
                                     \o <<Ev("durationchange", "")>>)
                             EXCEPT !.ms = durationMs]
       ELSE /\ duration' = duration
            /\ avLast' = Swallowed("prepareOk", <<"getDuration">>,
                                  setState(avState, "paused"))
  /\ UNCHANGED <<avplay, initialized, volume, muted, currentTime,
                 timeTrackingInterval, eventListeners>>

\* The messages of prepare failures the native player reports.
FaultMessages == {"DTS", "audio codec", "connection"}

\* String(error?.message || error).toLowerCase()
toLowerCase(str) == IF str = "DTS" THEN "dts" ELSE str

\* errorMsg.includes('dts') || errorMsg.includes('audio codec') ||
\* errorMsg.includes('unsupported audio')
isDTSError_Never(error) == FALSE

isDTSError(error) ==
  toLowerCase(error) \in {"dts", "audio codec", "unsupported audio"}

\* The error callback of prepareAsync.
PrepareFail(i, error) ==
  /\ i \in 1..Len(prepares)
  /\ native' \in (IF CurrentPrepare(i) THEN NativeFaulted(native) ELSE {native})
  /\ prepares' = Remove(prepares, i)
  /\ avState' = "error"
  /\ avLast' = [Thrown("prepareFail",
                         IF isDTSError(error)
                           THEN createPlayerError("unsupported_audio", FALSE)
                           ELSE createPlayerError("network", FALSE),
                         <<>>, setState(avState, "error"))
                  EXCEPT !.arg = error]
  /\ UNCHANGED <<avplay, initialized, volume, muted, currentTime, duration,
                 timeTrackingInterval, eventListeners>>

\* currentState === 'READY' || currentState === 'PAUSED'
CanPlay_Always(currentState) == TRUE

CanPlay(currentState) == currentState \in {"READY", "PAUSED"}

play(fault) ==
  \/ ensureInitialized("play")
  \/ /\ initialized
     /\ LET currentState == getAVPlayState
        IN IF CanPlay(currentState)
             THEN IF native \in NativeLegal("play") /\ ~fault
                    THEN /\ native' = NativeAfter("play", native)
                         /\ avState' = "playing"
                         /\ timeTrackingInterval' = TRUE
                         /\ avLast' = AvRecord("play", FALSE, NoError,
                                               <<"getState", "play">>,
                                               setState(avState, "playing"), TRUE)
                    ELSE /\ native' \in NativeFaulted(native)
                         /\ avState' = "error"
                         /\ timeTrackingInterval' = timeTrackingInterval
                         /\ avLast' = Thrown("play",
                                               createPlayerError("media", FALSE),
                                               <<"getState", "play">>,
                                               setState(avState, "error"))
             ELSE /\ native' = native
                  /\ avState' = "error"
                  /\ timeTrackingInterval' = timeTrackingInterval
                  /\ avLast' = Rejected("play", createPlayerError("media", FALSE),
                                        <<"getState">>, setState(avState, "error"))
     /\ UNCHANGED <<avplay, initialized, volume, muted, currentTime, duration,
                    eventListeners, prepares>>

\* currentState === 'PLAYING'
CanPause(currentState) == currentState = "PLAYING"

pause(fault) ==
  \/ ensureInitialized("pause")
  \/ /\ initialized
     /\ LET currentState == getAVPlayState
        IN IF CanPause(currentState)
             THEN IF native \in NativeLegal("pause") /\ ~fault
                    THEN /\ native' = NativeAfter("pause", native)
                         /\ avState' = "paused"
                         /\ timeTrackingInterval' = FALSE
                         /\ avLast' = Resolved("pause", <<"getState", "pause">>,
                                               setState(avState, "paused"))
                    ELSE /\ native' \in NativeFaulted(native)
                         /\ avLast' = Thrown("pause",
                                               createPlayerError("media", FALSE),
                                               <<"getState", "pause">>, <<>>)
                         /\ UNCHANGED <<avState, timeTrackingInterval>>
             ELSE /\ avLast' = Resolved("pause", <<"getState">>, <<>>)
                  /\ UNCHANGED <<native, avState, timeTrackingInterval>>
     /\ UNCHANGED <<avplay, initialized, volume, muted, currentTime, duration,
                    eventListeners, prepares>>

stop(fault) ==
  \/ ensureInitialized("stop")
  \/ /\ initialized
     /\ timeTrackingInterval' = FALSE
     /\ IF native \in NativeLegal("stop") /\ ~fault
          THEN /\ native' = NativeAfter("close", NativeAfter("stop", native))
               /\ currentTime' = 0
               /\ duration' = 0
               /\ avState' = "idle"
               /\ avLast' = Resolved("stop", <<"stop", "close">>,
                                     setState(avState, "idle"))
          ELSE /\ native' \in NativeFaulted(native)
               /\ avLast' = Thrown("stop", createPlayerError("media", FALSE),
                                     <<"stop">>, <<>>)
               /\ UNCHANGED <<currentTime, duration, avState>>
     /\ UNCHANGED <<avplay, initialized, volume, muted, eventListeners, prepares>>

\* Math.ceil in place of Math.floor.
SecondsToMs_Ceil(timeSeconds) == (timeSeconds + 1) \div 2

\* Math.floor(timeSeconds * 1000)
SecondsToMs(timeSeconds) == timeSeconds \div 2

\* timeMs / 1000
MsToSeconds(timeMs) == 2 * timeMs

seek(timeSeconds, fault) ==
  \/ ensureInitialized("seek")
  \/ /\ initialized
     /\ IF native \in NativeLegal("seekTo") /\ ~fault
          THEN /\ currentTime' = timeSeconds
               /\ avLast' = [Resolved("seek", <<"seekTo">>, <<>>)
                                EXCEPT !.ms = SecondsToMs(timeSeconds)]
          ELSE /\ currentTime' = currentTime
               /\ avLast' = Thrown("seek", createPlayerError("media", FALSE),
                                     <<"seekTo">>, <<>>)
     /\ UNCHANGED <<avplay, initialized, avState, volume, muted, duration,
                    timeTrackingInterval, eventListeners, native, prepares>>

\* The value this.currentTime holds after getCurrentTime() read timeMs.
ReadCurrentTime(timeMs) ==
  IF avplay /\ native \in NativeLegal("getCurrentTime")
    THEN MsToSeconds(timeMs)
    ELSE currentTime

getCurrentTime(timeMs) ==
  /\ currentTime' = ReadCurrentTime(timeMs)
  /\ avLast' = IF avplay /\ native \notin NativeLegal("getCurrentTime")
                 THEN Swallowed("getCurrentTime", <<"getCurrentTime">>, <<>>)
                 ELSE [Resolved("getCurrentTime",
                                IF avplay THEN <<"getCurrentTime">> ELSE <<>>,
                                <<>>)
                         EXCEPT !.ms = IF avplay THEN timeMs ELSE -1]
  /\ UNCHANGED <<avplay, initialized, avState, volume, muted, duration,
                 timeTrackingInterval, eventListeners, native, prepares>>

\* getState(), getDuration(), getVolume(), isMuted(): field reads.
Getters == {"getState", "getVolume"}

getter(op) ==
  /\ avLast' = Resolved(op, <<>>, <<>>)
  /\ UNCHANGED <<engVars, native, prepares>>

Max(a, b) == IF a >= b THEN a ELSE b

\* Math.max(0, Math.min(1, volume))
ClampVolume(v) == Max(0, Min(10, v))

setVolume(v) ==
  \/ ensureInitialized("setVolume")
  \/ /\ initialized
     /\ volume' = ClampVolume(v)
     /\ avLast' = Resolved("setVolume", <<>>, <<Ev("volumechange", "volume")>>)
     /\ UNCHANGED <<avplay, initialized, avState, muted, currentTime, duration,
                    timeTrackingInterval, eventListeners, native, prepares>>

setMuted(m) ==
  \/ ensureInitialized("setMuted")
  \/ /\ initialized
     /\ muted' = m
     /\ avLast' = Resolved("setMuted", <<>>, <<Ev("volumechange", "muted")>>)
     /\ UNCHANGED <<avplay, initialized, avState, volume, currentTime, duration,
                    timeTrackingInterval, eventListeners, native, prepares>>

setQuality ==
  /\ avLast' = Resolved("setQuality", <<>>, <<>>)
  /\ UNCHANGED <<engVars, native, prepares>>

\* A native call inside try/catch whose failure is ignored: the call is made
\* when this.avplay is set, a TypeError is swallowed when it is null.
SwallowedCall(op, call) ==
  /\ avLast' = IF avplay /\ native \notin NativeLegal(call)
                 THEN Swallowed(op, <<call>>, <<>>)
                 ELSE Resolved(op, IF avplay THEN <<call>> ELSE <<>>, <<>>)
  /\ UNCHANGED <<engVars, native, prepares>>

enableAdaptiveBitrate(enabled) ==
  IF enabled
    THEN SwallowedCall("enableAdaptiveBitrate", "setStreamingProperty")
    ELSE /\ avLast' = Resolved("enableAdaptiveBitrate", <<>>, <<>>)
         /\ UNCHANGED <<engVars, native, prepares>>

setAudioTrack == SwallowedCall("setAudioTrack", "setSelectTrack")

setSubtitleTrack == SwallowedCall("setSubtitleTrack", "setSelectTrack")

on(event) ==
  /\ eventListeners' = eventListeners \cup {event}
  /\ avLast' = Resolved("on", <<>>, <<>>)
  /\ UNCHANGED <<avplay, initialized, avState, volume, muted, currentTime, duration,
                 timeTrackingInterval, native, prepares>>

off(event) ==
  /\ eventListeners' = eventListeners \ {event}
  /\ avLast' = Resolved("off", <<>>, <<>>)
  /\ UNCHANGED <<avplay, initialized, avState, volume, muted, currentTime, duration,
                 timeTrackingInterval, native, prepares>>

\* currentState !== 'NONE' && currentState !== 'IDLE'
DestroyCloses_Always(currentState) == TRUE

DestroyCloses(currentState) == currentState \notin {"NONE", "IDLE"}

destroy ==
  LET currentState == getAVPlayState
      closes == avplay /\ DestroyCloses(currentState)
  IN /\ timeTrackingInterval' = FALSE
     /\ native' = IF closes THEN NativeAfter("close", native) ELSE native
     /\ eventListeners' = {}
     /\ initialized' = FALSE
     /\ avLast' = Resolved("destroy",
                           (IF avplay THEN <<"getState">> ELSE <<>>)
                             \o (IF closes THEN <<"close">> ELSE <<>>),
                           <<>>)
     /\ UNCHANGED <<avplay, avState, volume, muted, currentTime, duration, prepares>>

\* The listener object handed to avplay.setListener by setupAVPlayListeners.
onbufferingstart ==
  /\ avplay /\ NativeHasStream
  /\ avState' = "buffering"
  /\ avLast' = Resolved("onbufferingstart", <<>>,
                        setState(avState, "buffering") \o <<Ev("buffering", "true")>>)
  /\ UNCHANGED <<avplay, initialized, volume, muted, currentTime, duration,
                 timeTrackingInterval, eventListeners, native, prepares>>

onbufferingcomplete ==
  /\ avplay /\ NativeHasStream
  /\ avState' = IF avState = "buffering" THEN "playing" ELSE avState
  /\ avLast' = Resolved("onbufferingcomplete", <<>>,
                        (IF avState = "buffering"
                           THEN setState(avState, "playing") ELSE <<>>)
                          \o <<Ev("buffering", "false")>>)
  /\ UNCHANGED <<avplay, initialized, volume, muted, currentTime, duration,
                 timeTrackingInterval, eventListeners, native, prepares>>

oncurrentplaytime(timeMs) ==
  /\ avplay /\ native = "PLAYING"
  /\ currentTime' = MsToSeconds(timeMs)
  /\ avLast' = Resolved("oncurrentplaytime", <<>>, <<>>)
  /\ UNCHANGED <<avplay, initialized, avState, volume, muted, duration,
                 timeTrackingInterval, eventListeners, native, prepares>>

\* onevent('PLAYER_MSG_STREAM_COMPLETED')
onevent ==
  /\ avplay /\ native = "PLAYING"
  /\ avState' = "ended"
  /\ timeTrackingInterval' = FALSE
  /\ avLast' = Resolved("onevent", <<>>,
                        setState(avState, "ended") \o <<Ev("ended", "")>>)
  /\ UNCHANGED <<avplay, initialized, volume, muted, currentTime, duration,
                 eventListeners, native, prepares>>

onerror ==
  /\ avplay /\ NativeHasStream
  /\ native' \in NativeFaulted(native)
  /\ avState' = "error"
  /\ avLast' = [AvRecord("onerror", FALSE, createPlayerError("media", TRUE), <<>>,
                         setState(avState, "error") \o <<Ev("error", "media")>>,
                         FALSE)
                  EXCEPT !.nfault = TRUE]
  /\ UNCHANGED <<avplay, initialized, volume, muted, currentTime, duration,
                 timeTrackingInterval, eventListeners, prepares>>

\* The callback of the interval set by startTimeTracking.
TimeTrackingTick(timeMs) ==
  /\ timeTrackingInterval
  /\ currentTime' = ReadCurrentTime(timeMs)
  /\ avLast' = IF avplay /\ native \notin NativeLegal("getCurrentTime")
                 THEN Swallowed("tick", <<"getCurrentTime">>,
                                <<Ev("timeupdate", "")>>)
                 ELSE Resolved("tick", <<"getCurrentTime">>,
                               <<Ev("timeupdate", "")>>)
  /\ UNCHANGED <<avplay, initialized, avState, volume, muted, duration,
                 timeTrackingInterval, eventListeners, native, prepares>>

RcIdle ==
  /\ config = DEFAULT_CONFIG
  /\ retryStates = [c \in Contexts |-> NoObj]
  /\ heap = [o \in ObjIds |-> NoState]
  /\ calls = [s \in Slots |-> IdleCall]
  /\ invoked = [c \in Contexts |-> 0]
  /\ fails = [c \in Contexts |-> 0]
  /\ clean = [c \in Contexts |-> TRUE]
  /\ last = [op |-> "init", ctx |-> "", err |-> NoError, result |-> Pending]

InitAV ==
  /\ RcIdle /\ AvConstructed /\ ShConstructed /\ NpConstructed
  /\ FcConstructed /\ YConstructed /\ HlsConstructed /\ VpUnmounted

exceptAv == <<rcVars, shVars, npVars, fcVars, yVars, hlsVars, vpVars>>

NextAV ==
  \/ \E avail \in BOOLEAN, vol \in InitVolumes, mut \in {FALSE} :
        initialize(avail, vol, mut) /\ UNCHANGED exceptAv
  \/ \E url \in Streams, fault \in BOOLEAN : load(url, fault) /\ UNCHANGED exceptAv
  \/ \E i \in 1..MaxPending, d \in NativeDurationsMs :
        PrepareOk(i, d) /\ UNCHANGED exceptAv
  \/ \E i \in 1..MaxPending, e \in FaultMessages :
        PrepareFail(i, e) /\ UNCHANGED exceptAv
  \/ \E fault \in BOOLEAN : play(fault) /\ UNCHANGED exceptAv
  \/ \E fault \in BOOLEAN : pause(fault) /\ UNCHANGED exceptAv
  \/ \E fault \in BOOLEAN : stop(fault) /\ UNCHANGED exceptAv
  \/ \E t \in SeekInputs, fault \in BOOLEAN : seek(t, fault) /\ UNCHANGED exceptAv
  \/ \E t \in NativeTimesMs : getCurrentTime(t) /\ UNCHANGED exceptAv
  \/ \E op \in Getters : getter(op) /\ UNCHANGED exceptAv
  \/ \E v \in VolumeInputs : setVolume(v) /\ UNCHANGED exceptAv
  \/ \E m \in BOOLEAN : setMuted(m) /\ UNCHANGED exceptAv
  \/ setQuality /\ UNCHANGED exceptAv
  \/ \E enabled \in BOOLEAN : enableAdaptiveBitrate(enabled) /\ UNCHANGED exceptAv
  \/ setAudioTrack /\ UNCHANGED exceptAv
  \/ setSubtitleTrack /\ UNCHANGED exceptAv
  \/ \E event \in ListenedEvents : on(event) /\ UNCHANGED exceptAv
  \/ \E event \in ListenedEvents : off(event) /\ UNCHANGED exceptAv
  \/ destroy /\ UNCHANGED exceptAv
  \/ onbufferingstart /\ UNCHANGED exceptAv
  \/ onbufferingcomplete /\ UNCHANGED exceptAv
  \/ \E t \in NativeTimesMs : oncurrentplaytime(t) /\ UNCHANGED exceptAv
  \/ onevent /\ UNCHANGED exceptAv
  \/ onerror /\ UNCHANGED exceptAv
  \/ \E t \in NativeTimesMs : TimeTrackingTick(t) /\ UNCHANGED exceptAv

SpecAV == InitAV /\ [][NextAV]_vars

(***************************************************************************)
(* The embedded engine with its caller: the caller loads streams and hands *)
(* every error an operation rejects with to recover(), one call at a time, *)
(* and goes on once the recovery has returned.                             *)
(***************************************************************************)
Quiet == \A s \in Slots : calls[s].pc = "idle"

NextAVR ==
  \/ \E avail \in BOOLEAN, vol \in InitVolumes :
        Quiet /\ initialize(avail, vol, FALSE) /\ UNCHANGED exceptAv
  \/ \E url \in Streams, fault \in BOOLEAN :
        Quiet /\ load(url, fault) /\ UNCHANGED exceptAv
  \/ \E i \in 1..MaxPending, d \in NativeDurationsMs :
        Quiet /\ PrepareOk(i, d) /\ UNCHANGED exceptAv
  \/ \E i \in 1..MaxPending, e \in FaultMessages :
        Quiet /\ PrepareFail(i, e) /\ UNCHANGED exceptAv
  \/ \E s \in Slots, c \in Contexts :
        /\ Quiet
        /\ avLast.threw
        /\ recover(s, c, avLast.err)
        /\ UNCHANGED exceptRc
  \/ \E s \in Slots : SleepDone(s) /\ UNCHANGED exceptRc
  \/ \E s \in Slots : RetryOk(s) /\ UNCHANGED exceptRc
  \/ \E s \in Slots : RetryFail(s) /\ UNCHANGED exceptRc

SpecAVR == InitAV /\ [][NextAVR]_vars

(***************************************************************************)
(* The adaptive engine: ShakaPlayerImpl with the shaka library, and its    *)
(* caller handing the errors it surfaces to recover().                     *)
(***************************************************************************)
\* Categories of the faults the library reports (shaka.util.Error.Category).
ShakaFaults == {"network", "media", "drm"}

\* shaka.util.Error.Severity: RECOVERABLE = 1, CRITICAL = 2
ShakaSeverities == {1, 2}

exceptSh == <<rcVars, avVars, npVars, fcVars, yVars, hlsVars, vpVars>>

shRejected(op, err, events, arg) ==
  WebRecord(op, shInitialized, TRUE, err, events, arg)

shResolved(op, events) ==
  WebRecord(op, shInitialized, FALSE, NoError, events, "")

\* isBrowserSupported() and the dynamic import are the inputs.
shInitialize(supported) ==
  IF shInitialized
    THEN /\ shLast' = shRejected("initialize", createPlayerError("unknown", FALSE),
                                 <<>>, "")
         /\ UNCHANGED <<shInitialized, shState, shLoads, shAbr>>
    ELSE IF ~supported
      THEN /\ shLast' = shRejected("initialize", createPlayerError("unknown", TRUE),
                                   <<>>, "")
           /\ UNCHANGED <<shInitialized, shState, shLoads, shAbr>>
      ELSE /\ shInitialized' = TRUE
           /\ shState' = "idle"
           /\ shLast' = shResolved("initialize", setState(shState, "idle"))
           /\ shAbr' = TRUE
           /\ UNCHANGED shLoads

\* load() up to await this.shakaPlayer.load(streamUrl)
shLoad ==
  IF ~shInitialized
    THEN /\ shLast' = shRejected("load", createPlayerError("unknown", FALSE),
                                 <<>>, "")
         /\ UNCHANGED <<shInitialized, shState, shLoads, shAbr>>
    ELSE /\ shLoads < MaxPending
         /\ shLoads' = shLoads + 1
         /\ shState' = "loading"
         /\ shLast' = shResolved("load", setState(shState, "loading"))
         /\ UNCHANGED <<shInitialized, shAbr>>

\* shakaPlayer.load() resolves
shLoadOk ==
  /\ shLoads > 0
  /\ shLoads' = shLoads - 1
  /\ shState' = "paused"
  /\ shLast' = shResolved("loadOk", setState(shState, "paused"))
  /\ UNCHANGED <<shInitialized, shAbr>>

\* The error load() rejects with when shakaPlayer.load() fails.
shLoadError(cause) == createPlayerError("network", FALSE)

\* shakaPlayer.load() rejects with a fault of category cause
shLoadFail(cause) ==
  /\ shLoads > 0
  /\ shLoads' = shLoads - 1
  /\ shState' = "error"
  /\ shLast' = shRejected("loadFail", shLoadError(cause),
                          setState(shState, "error"), cause)
  /\ UNCHANGED <<shInitialized, shAbr>>

\* The error the shakaPlayer 'error' listener emits.
shEventError(cause, severity) == createPlayerError("media", severity = 2)

\* shakaPlayer 'error' event with detail of category cause
shOnError(cause, severity) ==
  /\ shInitialized
  /\ shState' = "error"
  /\ shLast' = WebRecord("onError", shInitialized, FALSE,
                         shEventError(cause, severity),
                         setState(shState, "error") \o <<Ev("error", "media")>>,
                         cause)
  /\ UNCHANGED <<shInitialized, shLoads, shAbr>>

shDestroy ==
  /\ shInitialized' = FALSE
  /\ shLast' = shResolved("destroy", <<>>)
  /\ UNCHANGED <<shState, shLoads, shAbr>>

\* Quality ids handed to setQuality: null, the id of a variant track of the
\* loaded manifest, and an id no variant track has.
QualityIds == {"null", "720", "999"}

\* getVariantTracks(): the tracks of the manifest, none before a load.
getVariantTracks ==
  IF shState \in {"paused", "playing", "buffering"} THEN {"720"} ELSE {}

\* the abr.enabled value setQuality configures
setQualityAbr(qualityId) == qualityId = "null"

\* selectVariantTrack(undefined, true) on a loaded manifest reads the id of
\* its argument: fault is whether that throws.
shSetQuality(qualityId, fault) ==
  IF ~shInitialized
    THEN /\ shLast' = shRejected("setQuality",
                                 createPlayerError("unknown", FALSE), <<>>,
                                 qualityId)
         /\ UNCHANGED <<shInitialized, shState, shLoads, shAbr>>
    ELSE /\ shAbr' = setQualityAbr(qualityId)
         /\ fault => /\ qualityId \notin getVariantTracks \cup {"null"}
                     /\ getVariantTracks # {}
         /\ shLast' = IF fault
                        THEN WebRecord("setQuality", TRUE, TRUE, NoError, <<>>,
                                       qualityId)
                        ELSE WebRecord("setQuality", TRUE, FALSE, NoError,
                                       <<Ev("qualitychange", qualityId)>>,
                                       qualityId)
         /\ UNCHANGED <<shInitialized, shState, shLoads>>

shEnableAdaptiveBitrate(enabled) ==
  IF ~shInitialized
    THEN /\ shLast' = shRejected("enableAdaptiveBitrate",
                                 createPlayerError("unknown", FALSE), <<>>,
                                 IF enabled THEN "true" ELSE "false")
         /\ UNCHANGED <<shInitialized, shState, shLoads, shAbr>>
    ELSE /\ shAbr' = enabled
         /\ shLast' = WebRecord("enableAdaptiveBitrate", TRUE, FALSE, NoError,
                                <<>>, IF enabled THEN "true" ELSE "false")
         /\ UNCHANGED <<shInitialized, shState, shLoads>>

NextSH ==
  \/ \E supported \in BOOLEAN :
        Quiet /\ shInitialize(supported) /\ UNCHANGED exceptSh
  \/ Quiet /\ shLoad /\ UNCHANGED exceptSh
  \/ Quiet /\ shLoadOk /\ UNCHANGED exceptSh
  \/ \E cause \in ShakaFaults : Quiet /\ shLoadFail(cause) /\ UNCHANGED exceptSh
  \/ \E cause \in ShakaFaults, severity \in ShakaSeverities :
        Quiet /\ shOnError(cause, severity) /\ UNCHANGED exceptSh
  \/ Quiet /\ shDestroy /\ UNCHANGED exceptSh
  \/ \E s \in Slots, c \in Contexts :
        /\ Quiet
        /\ shLast.err # NoError
        /\ recover(s, c, shLast.err)
        /\ UNCHANGED exceptRc
  \/ \E s \in Slots : SleepDone(s) /\ UNCHANGED exceptRc
  \/ \E s \in Slots : RetryOk(s) /\ UNCHANGED exceptRc
  \/ \E s \in Slots : RetryFail(s) /\ UNCHANGED exceptRc

SpecSH == InitAV /\ [][NextSH]_vars

\* The adaptive engine on its own: loading and quality selection.
NextSQ ==
  \/ \E supported \in BOOLEAN : shInitialize(supported) /\ UNCHANGED exceptSh
  \/ shLoad /\ UNCHANGED exceptSh
  \/ shLoadOk /\ UNCHANGED exceptSh
  \/ \E cause \in ShakaFaults : shLoadFail(cause) /\ UNCHANGED exceptSh
  \/ \E qualityId \in QualityIds, fault \in BOOLEAN :
        shSetQuality(qualityId, fault) /\ UNCHANGED exceptSh
  \/ \E enabled \in BOOLEAN :
        shEnableAdaptiveBitrate(enabled) /\ UNCHANGED exceptSh
  \/ shDestroy /\ UNCHANGED exceptSh

SpecSQ == InitAV /\ [][NextSQ]_vars

(***************************************************************************)
(* The progressive engine: NativePlayerImpl and its video element. The     *)
(* element queues a volumechange event whenever its volume or muted value  *)
(* changes; the listener registered by setupEventListeners re-emits it.    *)
(***************************************************************************)
exceptNp == <<rcVars, avVars, shVars, fcVars, yVars, hlsVars, vpVars>>

npRejected(op) ==
  WebRecord(op, npInitialized, TRUE, createPlayerError("unknown", FALSE), <<>>, "")

\* The events the element queues when an attribute goes from old to new in
\* the operation cause.
ElementChange(old, new, cause) == IF old # new THEN <<cause>> ELSE <<>>

\* document.createElement / appendChild succeed or throw: the input ok.
npInitialize(ok) ==
  IF npInitialized
    THEN /\ npLast' = npRejected("initialize")
         /\ UNCHANGED <<npInitialized, npVolume, npMuted, npQueue, npState>>
    ELSE IF ~ok
      THEN /\ npLast' = WebRecord("initialize", FALSE, TRUE,
                                  createPlayerError("unknown", TRUE), <<>>, "")
           /\ UNCHANGED <<npInitialized, npVolume, npMuted, npQueue, npState>>
      ELSE /\ npInitialized' = TRUE
           /\ npVolume' = 10
           /\ npMuted' = FALSE
           /\ npState' = "idle"
           /\ npLast' = WebRecord("initialize", FALSE, FALSE, NoError,
                                  setState(npState, "idle"), "")
           /\ UNCHANGED npQueue

\* getVolume(): the element's volume, 0 when there is no element.
npGetVolume == IF npInitialized THEN npVolume ELSE 0

npSetVolume(v) ==
  IF ~npInitialized
    THEN /\ npLast' = npRejected("setVolume")
         /\ UNCHANGED <<npInitialized, npVolume, npMuted, npQueue, npState>>
    ELSE /\ Len(npQueue) < MaxPending
         /\ npVolume' = ClampVolume(v)
         /\ npQueue' = npQueue \o ElementChange(npVolume, npVolume', "setVolume")
         /\ npLast' = WebRecord("setVolume", TRUE, FALSE, NoError,
                                <<Ev("volumechange", "volume")>>, v)
         /\ UNCHANGED <<npInitialized, npMuted, npState>>

npSetMuted(m) ==
  IF ~npInitialized
    THEN /\ npLast' = npRejected("setMuted")
         /\ UNCHANGED <<npInitialized, npVolume, npMuted, npQueue, npState>>
    ELSE /\ Len(npQueue) < MaxPending
         /\ npMuted' = m
         /\ npQueue' = npQueue \o ElementChange(npMuted, m, "setMuted")
         /\ npLast' = WebRecord("setMuted", TRUE, FALSE, NoError,
                                <<Ev("volumechange", "muted")>>, "")
         /\ UNCHANGED <<npInitialized, npVolume, npState>>

\* The element dispatches a queued volumechange: the listener emits
\* volumechange {volume, muted}. arg is the operation that caused it.
npOnVolumeChange ==
  /\ npQueue # <<>>
  /\ npQueue' = Tail(npQueue)
  /\ npLast' = WebRecord("onvolumechange", npInitialized, FALSE, NoError,
                         <<Ev("volumechange", "volume,muted")>>, Head(npQueue))
  /\ UNCHANGED <<npInitialized, npVolume, npMuted, npState>>

npDestroy ==
  /\ npInitialized' = FALSE
  /\ npLast' = WebRecord("destroy", npInitialized, FALSE, NoError, <<>>, "")
  /\ UNCHANGED <<npVolume, npMuted, npQueue, npState>>

\* The element's error listener: classify, setState('error'), emit error.
npOnError(code) ==
  LET error == classifyMediaError(code) IN
  /\ npInitialized
  /\ npState' = "error"
  /\ npLast' = WebRecord("onerror", TRUE, FALSE, error,
                         setState(npState, "error") \o <<Ev("error", error)>>,
                         code)
  /\ UNCHANGED <<npInitialized, npVolume, npMuted, npQueue>>

NextNP ==
  \/ \E ok \in BOOLEAN : npInitialize(ok) /\ UNCHANGED exceptNp
  \/ \E v \in VolumeInputs \cup {5} : npSetVolume(v) /\ UNCHANGED exceptNp
  \/ \E m \in BOOLEAN : npSetMuted(m) /\ UNCHANGED exceptNp
  \/ npOnVolumeChange /\ UNCHANGED exceptNp
  \/ \E code \in MediaErrCodes : npOnError(code) /\ UNCHANGED exceptNp
  \/ npDestroy /\ UNCHANGED exceptNp

SpecNP == InitAV /\ [][NextNP]_vars

(***************************************************************************)
(* PlayerFactory. A URL is a sequence of text pieces, so that includes()   *)
(* is a search for a contiguous run: '.m3u8' is the piece '.m3u' followed  *)
(* by '8', and a URL containing '.m3u8' also contains '.m3u'.              *)
(***************************************************************************)
MaxUrlLen == 2

UrlPieces == {"x", "8", ".m3u", ".M3U", ".mpd", ".mp4", ".ogg"}

Urls == UNION {[1..n -> UrlPieces] : n \in 0..MaxUrlLen}

Platforms == {"tizen", "web", "webos"}

\* preferredPlayer: 'shaka' | 'hls' | 'avplay' or absent
PreferredPlayers == {"", "shaka", "hls", "avplay"}

\* the engine modules a dynamic import() can be asked for
EngineModules ==
  {"AVPlayPlayerImpl", "ShakaPlayerImpl", "HLSPlayerImpl", "NativePlayerImpl"}

HLS_EXTENSIONS == {<<".m3u", "8">>, <<".m3u">>}

DASH_EXTENSIONS == {<<".mpd">>}

PROGRESSIVE_EXTENSIONS == {<<".mp4">>, <<".webm">>, <<".ogg">>}

\* streamUrl.toLowerCase()
urlToLowerCase(url) ==
  [i \in DOMAIN url |-> IF url[i] = ".M3U" THEN ".m3u" ELSE url[i]]

\* String.prototype.includes
includes(url, ext) ==
  \E i \in 1..Len(url) :
    /\ i + Len(ext) - 1 <= Len(url)
    /\ SubSeq(url, i, i + Len(ext) - 1) = ext

detectStreamType(streamUrl) ==
  LET url == urlToLowerCase(streamUrl) IN
  IF \E ext \in HLS_EXTENSIONS : includes(url, ext) THEN "hls"
  ELSE IF \E ext \in DASH_EXTENSIONS : includes(url, ext) THEN "dash"
  ELSE IF \E ext \in PROGRESSIVE_EXTENSIONS : includes(url, ext)
    THEN "progressive"
  ELSE "hls"

\* ShakaPlayerImpl.canPlayStream
shCanPlayStream(streamUrl) ==
  LET url == urlToLowerCase(streamUrl) IN
  includes(url, <<".m3u", "8">>) \/ includes(url, <<".mpd">>)

\* The outcome of a factory call: the class of the engine returned, or the
\* error thrown.
Created(player) == [player |-> player, err |-> NoError]

CreateFailed(type) ==
  [player |-> "", err |-> createPlayerError(type, TRUE)]

\* imports: the engine modules whose dynamic import succeeds
createTizenPlayer(imports) ==
  IF "AVPlayPlayerImpl" \in imports
    THEN Created("AVPlayPlayerImpl")
    ELSE CreateFailed("unknown")

createWebPlayer(streamUrl, streamType, preferredPlayer, imports) ==
  IF /\ preferredPlayer # "hls"
     /\ streamType \in {"hls", "dash"}
     /\ "ShakaPlayerImpl" \in imports
     /\ shCanPlayStream(streamUrl)
    THEN Created("ShakaPlayerImpl")
  ELSE IF streamType = "hls"
    THEN IF "HLSPlayerImpl" \in imports
           THEN Created("HLSPlayerImpl")
           ELSE CreateFailed("unknown")
  ELSE IF streamType = "progressive"
    THEN IF "NativePlayerImpl" \in imports
           THEN Created("NativePlayerImpl")
           ELSE CreateFailed("unknown")
  ELSE CreateFailed("unsupported_format")

selectPlayer_ByStream(streamUrl, platform, preferredPlayer, imports) ==
  createWebPlayer(streamUrl, detectStreamType(streamUrl), preferredPlayer,
                  imports)

\* the platform dispatch of createPlayer
selectPlayer(streamUrl, platform, preferredPlayer, imports) ==
  IF platform = "tizen" THEN createTizenPlayer(imports)
  ELSE IF platform = "web"
    THEN createWebPlayer(streamUrl, detectStreamType(streamUrl),
                         preferredPlayer, imports)
  ELSE CreateFailed("unsupported_format")

\* A call of createPlayer with its arguments, before it has returned.
CreateCall(streamUrl, platform, preferredPlayer, imports) ==
  [NoCreate EXCEPT !.streamUrl = streamUrl, !.platform = platform,
                   !.preferredPlayer = preferredPlayer, !.imports = imports]

\* Every engine class starts with initialized = false and state = 'idle'.
createPlayer ==
  LET r == selectPlayer(fcLast.streamUrl, fcLast.platform,
                        fcLast.preferredPlayer, fcLast.imports) IN
  /\ fcLast.platform # ""
  /\ ~fcLast.returned
  /\ fcLast' = [fcLast EXCEPT !.returned = TRUE,
                              !.player = r.player,
                              !.initialized = FALSE,
                              !.state = IF r.player = "" THEN "" ELSE "idle",
                              !.err = r.err]

exceptFc == <<rcVars, avVars, shVars, npVars, yVars, hlsVars, vpVars>>

InitFC ==
  /\ RcIdle /\ AvConstructed /\ ShConstructed /\ NpConstructed
  /\ YConstructed /\ HlsConstructed /\ VpUnmounted
  /\ \E streamUrl \in Urls, platform \in Platforms,
        preferredPlayer \in PreferredPlayers,
        imports \in SUBSET EngineModules :
       fcLast = CreateCall(streamUrl, platform, preferredPlayer, imports)

NextFC == createPlayer /\ UNCHANGED exceptFc

SpecFC == InitFC /\ [][NextFC]_vars

(***************************************************************************)
(* The segment-only engine: HLSPlayerImpl, the segment library (hls.js)    *)
(* and the video element. The library reports that the source handed over  *)
(* by load() is ready or has failed, and once it is ready it appends       *)
(* segments to the buffer whether or not playback has started; the element *)
(* reports 'waiting' and 'playing' only once playback has been started, by *)
(* play() or by its autoplay attribute.                                    *)
(***************************************************************************)
exceptHls == <<rcVars, avVars, shVars, npVars, fcVars, yVars, vpVars>>

\* support: Hls.isSupported() ('hls.js'), else
\* video.canPlayType('application/vnd.apple.mpegurl') ('native'), else 'none'.
hlsInitialize(autoPlay, support) ==
  IF hlsInitialized
    THEN /\ hlsLast' = WebRecord("initialize", TRUE, TRUE,
                                 createPlayerError("unknown", FALSE), <<>>, "")
         /\ UNCHANGED <<hls, hlsInitialized, hlsState, hlsAutoplay, hlsSource,
                        hlsPlayed>>
    ELSE IF support = "none"
      THEN /\ hlsLast' = WebRecord("initialize", FALSE, TRUE,
                                   createPlayerError("unknown", TRUE), <<>>, "")
           /\ UNCHANGED <<hls, hlsInitialized, hlsState, hlsAutoplay,
                          hlsSource, hlsPlayed>>
      ELSE /\ hls' = (support = "hls.js")
           /\ hlsAutoplay' = autoPlay
           /\ hlsInitialized' = TRUE
           /\ hlsState' = "idle"
           /\ hlsLast' = WebRecord("initialize", FALSE, FALSE, NoError,
                                   setState(hlsState, "idle"), "")
           /\ UNCHANGED <<hlsSource, hlsPlayed>>

\* load(): hls.loadSource(streamUrl) or videoElement.src = streamUrl returns
\* (or throws, fault) before the source has been fetched.
hlsLoad(fault) ==
  IF ~hlsInitialized
    THEN /\ hlsLast' = WebRecord("load", FALSE, TRUE,
                                 createPlayerError("unknown", FALSE), <<>>, "")
         /\ UNCHANGED <<hls, hlsInitialized, hlsState, hlsAutoplay, hlsSource,
                        hlsPlayed>>
    ELSE /\ hlsPlayed' = FALSE
         /\ IF fault
              THEN /\ hlsState' = "error"
                   /\ hlsSource' = "failed"
                   /\ hlsLast' = WebRecord("load", TRUE, TRUE,
                                           createPlayerError("network", FALSE),
                                           setState(hlsState, "loading")
                                             \o setState("loading", "error"), "")
              ELSE /\ hlsState' = "paused"
                   /\ hlsSource' = "pending"
                   /\ hlsLast' = WebRecord("load", TRUE, FALSE, NoError,
                                           setState(hlsState, "loading")
                                             \o setState("loading", "paused"), "")
         /\ UNCHANGED <<hls, hlsInitialized, hlsAutoplay>>

\* The source becomes ready (no handler in the engine), or fails: a fatal
\* Hls.Events.ERROR, or the 'error' event of the element under native HLS.
hlsSourceSettled(ok) ==
  /\ hlsInitialized /\ hlsSource = "pending"
  /\ IF ok
       THEN /\ hlsSource' = "ready"
            /\ hlsState' = hlsState
            /\ hlsLast' = WebRecord("sourceReady", TRUE, FALSE, NoError, <<>>, "")
       ELSE LET error == IF hls THEN createPlayerError("network", TRUE)
                                ELSE classifyMediaError("MEDIA_ERR_SRC_NOT_SUPPORTED")
            IN /\ hlsSource' = "failed"
               /\ hlsState' = "error"
               /\ hlsLast' = WebRecord("sourceFailed", TRUE, FALSE, error,
                                       setState(hlsState, "error")
                                         \o <<Ev("error", error.type)>>, "")
  /\ UNCHANGED <<hls, hlsInitialized, hlsAutoplay, hlsPlayed>>

\* The callbacks of setupEventListeners and setupVideoElementEvents:
\* Hls.Events.BUFFER_APPENDING and BUFFER_APPENDED of the library, 'waiting'
\* and 'playing' of the video element.
hlsEvent(event) ==
  /\ hlsInitialized /\ hlsSource = "ready"
  /\ IF event \in {"BUFFER_APPENDING", "BUFFER_APPENDED"}
       THEN hls
       ELSE hlsPlayed \/ hlsAutoplay
  /\ hlsState' = CASE event \in {"BUFFER_APPENDING", "waiting"} -> "buffering"
                   [] event = "playing" -> "playing"
                   [] OTHER -> IF hlsState = "buffering" THEN "playing"
                                                         ELSE hlsState
  /\ hlsLast' = WebRecord(event, TRUE, FALSE, NoError,
                          setState(hlsState, hlsState')
                            \o (IF event = "BUFFER_APPENDED" /\ hlsState # "buffering"
                                  THEN <<>>
                                  ELSE <<Ev("buffering",
                                            IF event \in {"BUFFER_APPENDING", "waiting"}
                                              THEN "true" ELSE "false")>>),
                          "")
  /\ UNCHANGED <<hls, hlsInitialized, hlsAutoplay, hlsSource, hlsPlayed>>

\* play(): videoElement.play() resolves, or rejects (fault).
hlsPlay(fault) ==
  IF ~hlsInitialized
    THEN /\ hlsLast' = WebRecord("play", FALSE, TRUE,
                                 createPlayerError("unknown", FALSE), <<>>, "")
         /\ UNCHANGED <<hls, hlsInitialized, hlsState, hlsAutoplay, hlsSource,
                        hlsPlayed>>
    ELSE /\ hlsPlayed' = TRUE
         /\ hlsState' = IF fault THEN "error" ELSE "playing"
         /\ hlsLast' = IF fault
                         THEN WebRecord("play", TRUE, TRUE,
                                        createPlayerError("media", FALSE),
                                        setState(hlsState, "error"), "")
                         ELSE WebRecord("play", TRUE, FALSE, NoError,
                                        setState(hlsState, "playing"), "")
         /\ UNCHANGED <<hls, hlsInitialized, hlsAutoplay, hlsSource>>

NextHL ==
  \/ \E autoPlay \in BOOLEAN, support \in {"hls.js", "native", "none"} :
        hlsInitialize(autoPlay, support) /\ UNCHANGED exceptHls
  \/ \E fault \in BOOLEAN : hlsLoad(fault) /\ UNCHANGED exceptHls
  \/ \E ok \in BOOLEAN : hlsSourceSettled(ok) /\ UNCHANGED exceptHls
  \/ \E event \in {"BUFFER_APPENDING", "BUFFER_APPENDED", "waiting", "playing"} :
        hlsEvent(event) /\ UNCHANGED exceptHls
  \/ \E fault \in BOOLEAN : hlsPlay(fault) /\ UNCHANGED exceptHls

SpecHL == InitAV /\ [][NextHL]_vars

(***************************************************************************)
(* The VideoPlayer component (VideoPlayer.tsx): the mount effect runs      *)
(* initPlayer(), which awaits createPlayer, initialize, load and play in   *)
(* turn; the cleanup of the effect runs when the component unmounts, at    *)
(* any of these points. Each step below is the part of initPlayer() from   *)
(* the promise it awaits being settled (ok: resolved) to its next await.   *)
(***************************************************************************)
exceptVp == <<rcVars, avVars, shVars, npVars, fcVars, yVars, hlsVars>>

initPlayer(autoPlay, ok) ==
  /\ CASE vpPc = "start" ->
           \* the component mounts and the effect calls createPlayer
           /\ vpMounted' = TRUE
           /\ vpAutoPlay' = autoPlay
           /\ vpLoading' = TRUE
           /\ vpError' = FALSE
           /\ vpPc' = "createPlayer"
           /\ vpLast' = [op |-> "createPlayer", mounted |-> TRUE]
           /\ UNCHANGED <<vpRef, vpEngine>>
      [] vpPc = "createPlayer" /\ ok /\ ~vpMounted ->
           /\ vpEngine' = [vpEngine EXCEPT !.created = TRUE, !.destroyed = TRUE]
           /\ vpPc' = "destroy"
           /\ vpLast' = [op |-> "destroy", mounted |-> vpMounted]
           /\ UNCHANGED <<vpMounted, vpRef, vpAutoPlay, vpLoading, vpError>>
      [] vpPc = "createPlayer" /\ ok /\ vpMounted ->
           /\ vpEngine' = [vpEngine EXCEPT !.created = TRUE,
                                           !.initialized = TRUE]
           /\ vpPc' = "initialize"
           /\ vpLast' = [op |-> "initialize", mounted |-> vpMounted]
           /\ UNCHANGED <<vpMounted, vpRef, vpAutoPlay, vpLoading, vpError>>
      [] vpPc = "destroy" /\ ok ->
           /\ vpPc' = "done"
           /\ vpLast' = [op |-> "return", mounted |-> vpMounted]
           /\ UNCHANGED <<vpMounted, vpRef, vpAutoPlay, vpEngine, vpLoading,
                          vpError>>
      [] vpPc = "initialize" /\ ok ->
           /\ vpRef' = TRUE
           /\ vpEngine' = [vpEngine EXCEPT !.loaded = TRUE]
           /\ vpPc' = "load"
           /\ vpLast' = [op |-> "load", mounted |-> vpMounted]
           /\ UNCHANGED <<vpMounted, vpAutoPlay, vpLoading, vpError>>
      [] vpPc = "load" /\ ok /\ vpAutoPlay ->
           /\ vpEngine' = [vpEngine EXCEPT !.played = TRUE]
           /\ vpPc' = "play"
           /\ vpLast' = [op |-> "play", mounted |-> vpMounted]
           /\ UNCHANGED <<vpMounted, vpRef, vpAutoPlay, vpLoading, vpError>>
      [] vpPc \in {"load", "play"} /\ ok ->
           /\ vpLoading' = FALSE
           /\ vpPc' = "done"
           /\ vpLast' = [op |-> "return", mounted |-> vpMounted]
           /\ UNCHANGED <<vpMounted, vpRef, vpAutoPlay, vpEngine, vpError>>
      [] vpPc = "done" -> FALSE
      [] OTHER ->
           \* the awaited promise rejects: the catch block
           /\ vpPc' = "done"
           /\ vpError' = IF vpMounted THEN TRUE ELSE vpError
           /\ vpLoading' = IF vpMounted THEN FALSE ELSE vpLoading
           /\ vpLast' = [op |-> "catch", mounted |-> vpMounted]
           /\ UNCHANGED <<vpMounted, vpRef, vpAutoPlay, vpEngine>>
  /\ UNCHANGED vpPc2

\* The cleanup function returned by the effect.
unmount ==
  /\ vpMounted
  /\ vpMounted' = FALSE
  /\ vpRef' = FALSE
  /\ vpEngine' = IF vpRef THEN [vpEngine EXCEPT !.destroyed = TRUE] ELSE vpEngine
  /\ vpLast' = [op |-> "unmount", mounted |-> FALSE]
  /\ UNCHANGED <<vpPc, vpPc2, vpAutoPlay, vpLoading, vpError>>

\* The effect on [streamUrl, channelId]: it runs loadNewStream() when the
\* props change on a mounted component whose player is set, and
\* loadNewStream() awaits stop, load and play in turn. One run at a time.
loadNewStream(ok) ==
  /\ CASE vpPc2 = "idle" ->
           /\ vpMounted /\ vpRef
           /\ vpLoading' = TRUE
           /\ vpError' = FALSE
           /\ vpPc2' = "stop"
           /\ vpLast' = [op |-> "stop", mounted |-> vpMounted]
           /\ UNCHANGED vpEngine
      [] vpPc2 = "stop" /\ ok ->
           /\ vpEngine' = [vpEngine EXCEPT !.loaded = TRUE]
           /\ vpPc2' = "load"
           /\ vpLast' = [op |-> "load", mounted |-> vpMounted]
           /\ UNCHANGED <<vpLoading, vpError>>
      [] vpPc2 = "load" /\ ok /\ vpAutoPlay ->
           /\ vpEngine' = [vpEngine EXCEPT !.played = TRUE]
           /\ vpPc2' = "play"
           /\ vpLast' = [op |-> "play", mounted |-> vpMounted]
           /\ UNCHANGED <<vpLoading, vpError>>
      [] vpPc2 \in {"load", "play"} /\ ok ->
           /\ vpLoading' = FALSE
           /\ vpPc2' = "idle"
           /\ vpLast' = [op |-> "return", mounted |-> vpMounted]
           /\ UNCHANGED <<vpEngine, vpError>>
      [] OTHER ->
           \* the awaited promise rejects: the catch block
           /\ vpError' = TRUE
           /\ vpLoading' = FALSE
           /\ vpPc2' = "idle"
           /\ vpLast' = [op |-> "catch", mounted |-> vpMounted]
           /\ UNCHANGED vpEngine
  /\ UNCHANGED <<vpMounted, vpPc, vpRef, vpAutoPlay>>

NextVP ==
  \/ \E autoPlay \in BOOLEAN, ok \in BOOLEAN :
        initPlayer(autoPlay, ok) /\ UNCHANGED exceptVp
  \/ unmount /\ UNCHANGED exceptVp
  \/ \E ok \in BOOLEAN : loadNewStream(ok) /\ UNCHANGED exceptVp

SpecVP == InitAV /\ [][NextVP]_vars

(***************************************************************************)
(* Two coordinators. X is the coordinator above, its recover() calls on    *)
(* different contexts overlapping; Y is a second instance that has made    *)
(* recover() calls of its own before, and is cleared at some point.        *)
(***************************************************************************)
\* A RetryState of Y after its first attempt (retryWithBackoff, update state).
TrackedOnce ==
  [attempts |-> 1,
   nextDelay |-> NextDelay(DEFAULT_CONFIG.initialDelayMs,
                           DEFAULT_CONFIG.backoffMultiplier)]

clearAllY ==
  /\ retryStatesY # [c \in Contexts |-> NoState]
  /\ retryStatesY' = [c \in Contexts |-> NoState]
  /\ last' = [op |-> "clearAllY", ctx |-> "", err |-> NoError,
              result |-> Pending]
  /\ UNCHANGED <<config, retryStates, heap, calls, invoked, fails, clean>>

InitXY ==
  /\ RcIdle /\ AvConstructed /\ ShConstructed /\ NpConstructed
  /\ FcConstructed /\ HlsConstructed /\ VpUnmounted
  /\ retryStatesY \in [Contexts -> {NoState, TrackedOnce}]

exceptXY == <<avVars, shVars, npVars, fcVars, hlsVars, vpVars>>

\* one error for each path of recover(): retry, skip, fail
XYErrors ==
  { createPlayerError("network", FALSE),
    createPlayerError("unsupported_audio", FALSE),
    createPlayerError("drm", FALSE) }

NextXY ==
  \/ \E s \in Slots, c \in Contexts, e \in XYErrors :
        InFlight(c) = {} /\ recover(s, c, e) /\ UNCHANGED <<exceptXY, yVars>>
  \/ \E s \in Slots : SleepDone(s) /\ UNCHANGED <<exceptXY, yVars>>
  \/ \E s \in Slots : RetryOk(s) /\ UNCHANGED <<exceptXY, yVars>>
  \/ \E s \in Slots : RetryFail(s) /\ UNCHANGED <<exceptXY, yVars>>
  \/ clearAllY /\ UNCHANGED exceptXY

SpecXY == InitXY /\ [][NextXY]_vars

(***************************************************************************)
(* The coordinator with recover() calls that overlap on one context: the   *)
(* caller issues a recover() whenever a slot is free, whether or not a     *)
(* call of the same context is suspended in sleep() or in retryFn(). The   *)
(* caller makes no other call (no clearAll, no clearRetryState). The      *)
(* coordinator is createDefault() and the calls are about one context.     *)
(***************************************************************************)
NextOV ==
  \/ \E s \in Slots, e \in XYErrors :
        recover(s, "a", e) /\ UNCHANGED exceptRc
  \/ \E s \in Slots : SleepDone(s) /\ UNCHANGED exceptRc
  \/ \E s \in Slots : RetryOk(s) /\ UNCHANGED exceptRc
  \/ \E s \in Slots : RetryFail(s) /\ UNCHANGED exceptRc

SpecOV == InitAV /\ [][NextOV]_vars

(***************************************************************************)
(* Properties of the recovery coordinator, checked under Spec.             *)
(***************************************************************************)
IsRetryVerb(error) ==
  isRecoverableError(error) /\ getErrorRecoveryStrategy(error) = "retry"

\* C1: recover() on an error that is fatal, or of kind drm or unknown,
\* returns {success:false, action:fail} in the same step, starts no backoff
\* wait, never invokes retryFn, creates no RetryState and leaves every
\* existing RetryState as it was.
C1_NonRecoverableFailsUntouched ==
  [][ ( /\ last'.op = "recover"
        /\ (last'.err.fatal \/ last'.err.type \in {"drm", "unknown"}) )
      => /\ last'.result = Fail
         /\ UNCHANGED <<retryStates, heap, calls, invoked>> ]_vars

C1_Witness ==
  /\ last.op = "recover"
  /\ last.err = createPlayerError("timeout", TRUE)
  /\ last.result = Fail
  /\ isRetrying(last.ctx)
  /\ \E s \in Slots : calls[s].pc = "sleep"

\* C2: with maxAttempts >= 1, in a run of recover() calls made one after
\* another on a context that had no RetryState, each failing in retryFn, the
\* k-th call returns action=retry for k < maxAttempts and
\* {success:false, action:fail} for k = maxAttempts; retryFn has then been
\* invoked exactly maxAttempts times, and isRetrying is false and getAttempts
\* is 0 right after the fail. No call of the run fails on entry.
C2_ExhaustionAtMaxAttempts ==
  \A c \in Contexts :
    (config.maxAttempts >= 1 /\ clean[c] /\ last.ctx = c) =>
      /\ (last.op = "recover" /\ IsRetryVerb(last.err)) => last.result = Pending
      /\ last.op = "retryFail" =>
           /\ fails[c] <= config.maxAttempts
           /\ invoked[c] = fails[c]
           /\ fails[c] < config.maxAttempts =>
                /\ last.result.action = "retry"
                /\ ~last.result.success
           /\ fails[c] = config.maxAttempts =>
                /\ last.result = Fail
                /\ ~isRetrying(c)
                /\ getAttempts(c) = 0

C2_Witness ==
  /\ last.op = "retryFail"
  /\ clean[last.ctx]
  /\ config = DEFAULT_CONFIG
  /\ fails[last.ctx] = DEFAULT_maxAttempts
  /\ invoked[last.ctx] = DEFAULT_maxAttempts
  /\ last.result = Fail

\* The delay of the k-th call of a run, as retryWithBackoff carries it from
\* call to call: d(1) = min(initialDelayMs, maxDelayMs),
\* d(k+1) = min(floor(d(k) * backoffMultiplier), maxDelayMs).
RECURSIVE KthDelay(_)
KthDelay(k) ==
  IF k <= 1
    THEN Min(config.initialDelayMs, config.maxDelayMs)
    ELSE Min((KthDelay(k - 1) * config.backoffMultiplier.num)
               \div config.backoffMultiplier.den,
             config.maxDelayMs)

RECURSIVE Pow(_, _)
Pow(b, n) == IF n = 0 THEN 1 ELSE b * Pow(b, n - 1)

\* delay = min(initialDelayMs * backoffMultiplier^(k-1), maxDelayMs), with the
\* multiplier num/den, cleared of the denominator.
IsClosedFormDelay(delay, k) ==
  delay * Pow(config.backoffMultiplier.den, k - 1)
    = Min(config.initialDelayMs * Pow(config.backoffMultiplier.num, k - 1),
          config.maxDelayMs * Pow(config.backoffMultiplier.den, k - 1))

DefaultDelays == <<DEFAULT_initialDelayMs, 2000, 4000>>

C4_FailedRetryKeepsState ==
  /\ ( last.op = "retryFail" /\ last.result.action = "retry"
       /\ clean[last.ctx] ) =>
       /\ ~last.result.success
       /\ last.result.nextAttempt <= config.maxAttempts
       /\ last.result.nextAttempt = fails[last.ctx] + 1
       /\ isRetrying(last.ctx)
       /\ getAttempts(last.ctx) = last.result.nextAttempt - 1
  /\ \A s \in Slots :
       (calls[s].pc # "idle" /\ clean[calls[s].ctx]) =>
         /\ retryStates[calls[s].ctx] = calls[s].obj
         /\ getAttempts(calls[s].ctx) = fails[calls[s].ctx] + 1

C4_Witness ==
  /\ last.op = "retryFail"
  /\ clean[last.ctx]
  /\ last.result = RecoveryResult(FALSE, "retry", 3)
  /\ getAttempts(last.ctx) = 2

\* C4 as stated: every retry-verb call made with no other recover() of its
\* context in flight (all calls of Spec are) that returns action=retry
\* leaves the RetryState in place with getAttempts = nextAttempt - 1.
C4_AsStated ==
  (last.op = "retryFail" /\ last.result.action = "retry") =>
    /\ last.result.nextAttempt <= config.maxAttempts
    /\ isRetrying(last.ctx)
    /\ getAttempts(last.ctx) = last.result.nextAttempt - 1

\* A retry-verb recover() that has just started on a context that had no
\* RetryState: it is attempt 1 and waits `delay`.
StartsFresh(delay) ==
  /\ last'.result = Pending
  /\ \E s \in Slots :
       /\ calls[s].pc = "idle"
       /\ calls'[s].pc = "sleep"
       /\ calls'[s].ctx = last'.ctx
       /\ calls'[s].delay = delay
       /\ retryStates'[last'.ctx] = calls'[s].obj
       /\ heap'[calls'[s].obj].attempts = 1

FreshStart ==
  /\ last'.op = "recover"
  /\ IsRetryVerb(last'.err)
  /\ ~isRetrying(last'.ctx)
  /\ config.maxAttempts >= 1

\* C5 (as amended): when retryFn succeeds the call returns
\* {success:true, action:retry} and the RetryState of the context is deleted
\* (isRetrying false, getAttempts 0), whatever number of failures preceded;
\* the next retry-verb call on a context without RetryState is attempt 1 and
\* waits min(initialDelayMs, maxDelayMs).
C5_SuccessClearsState ==
  /\ [](last.op = "retryOk" =>
          /\ last.result = RecoveryResult(TRUE, "retry", 0)
          /\ ~isRetrying(last.ctx)
          /\ getAttempts(last.ctx) = 0)
  /\ [][ FreshStart =>
           StartsFresh(Min(config.initialDelayMs, config.maxDelayMs)) ]_vars

C5_Witness ==
  /\ last.op = "retryOk"
  /\ clean[last.ctx]
  /\ fails[last.ctx] = 2
  /\ invoked[last.ctx] = 3
  /\ ~isRetrying(last.ctx)

\* C5 as stated: the call that follows a success on the same context is
\* attempt 1 and waits initialDelayMs.
C5_AsStated ==
  [][ (FreshStart /\ last.op = "retryOk" /\ last.ctx = last'.ctx) =>
        StartsFresh(config.initialDelayMs) ]_vars

\* C6: recover() on a non-fatal unsupported_audio error returns
\* {success:true, action:skip} in the same step: no wait, no retryFn, no
\* RetryState created, every existing RetryState untouched.
C6_UnsupportedAudioSkips ==
  [][ ( /\ last'.op = "recover"
        /\ last'.err = createPlayerError("unsupported_audio", FALSE) )
      => /\ last'.result = RecoveryResult(TRUE, "skip", 0)
         /\ UNCHANGED <<retryStates, heap, calls, invoked>> ]_vars

C6_Witness ==
  /\ last.op = "recover"
  /\ last.err = createPlayerError("unsupported_audio", FALSE)
  /\ last.result = RecoveryResult(TRUE, "skip", 0)
  /\ isRetrying(last.ctx)
  /\ \E s \in Slots : calls[s].pc = "sleep"

\* The unsupported_format errors this layer produces itself.
ProducedUnsupportedFormat ==
  { e \in { classifyMediaError(m) : m \in MediaErrCodes } \cup FactoryErrors :
      e.type = "unsupported_format" }

\* C7: every unsupported_format error produced by classifyMediaError or by
\* PlayerFactory, handed to recover(), yields {success:true, action:fallback}.
C7_ProducedUnsupportedFormatFallsBack ==
  (last.op = "recover" /\ last.err \in ProducedUnsupportedFormat) =>
    last.result = RecoveryResult(TRUE, "fallback", 0)

(***************************************************************************)
(* Properties of the embedded engine, checked under SpecAV.                *)
(***************************************************************************)
Range(seq) == { seq[i] : i \in 1..Len(seq) }

\* The contract operations other than initialize and isInitialized.
GuardedOps ==
  {"load", "play", "pause", "stop", "seek", "setVolume", "setMuted",
   "setQuality", "enableAdaptiveBitrate", "setAudioTrack", "setSubtitleTrack",
   "on", "off", "getCurrentTime", "destroy"} \cup Getters

\* C8: every contract operation other than initialize/isInitialized that is
\* called on an engine on which no initialize has succeeded fails with an
\* error of kind unknown, fatal=false, changes no engine state, makes no
\* native call and emits no event.
C8_UninitializedOperationFails ==
  [][ (~avplay /\ ~initialized /\ avLast'.op \in GuardedOps) =>
        /\ avLast'.threw
        /\ avLast'.err = createPlayerError("unknown", FALSE)
        /\ avLast'.ncalls = <<>>
        /\ avLast'.events = <<>>
        /\ UNCHANGED <<engVars, native, prepares>> ]_vars

\* The native call an operation stands for.
NativeCallOf(op) ==
  CASE op = "play" -> "play"
    [] op = "pause" -> "pause"
    [] op = "stop" -> "stop"
    [] op = "seek" -> "seekTo"

\* C9: on the initialized engine, play outside READY/PAUSED, pause outside
\* PLAYING, stop outside PLAYING/PAUSED and seek with no prepared stream each
\* fail with an error of kind unknown, fatal=false, and do not invoke the
\* corresponding native call.
C9_IllegalTransitionFailsWithoutNativeCall ==
  ( /\ avLast.op \in {"play", "pause", "stop", "seek"}
    /\ avLast.wasInit
    /\ avLast.before \notin NativeLegal(NativeCallOf(avLast.op)) )
  => /\ avLast.threw
     /\ avLast.err = createPlayerError("unknown", FALSE)
     /\ NativeCallOf(avLast.op) \notin Range(avLast.ncalls)

\* C10: on the initialized engine, play() called while the native state is
\* not READY or PAUSED (NONE, IDLE, PLAYING, ERROR) rejects, the native play
\* call is not invoked, and the call neither starts the polling timer nor
\* changes whether it is running.
C10_PlayOutsideReadyPausedRejects ==
  /\ ( /\ avLast.op = "play"
       /\ avLast.wasInit
       /\ avLast.before \notin {"READY", "PAUSED"} )
     => /\ avLast.threw
        /\ "play" \notin Range(avLast.ncalls)
        /\ ~avLast.tstart
  /\ [][ ( /\ avLast'.op = "play"
           /\ initialized
           /\ native \notin {"READY", "PAUSED"} )
         => UNCHANGED <<timeTrackingInterval, native>> ]_vars

C10_Witness ==
  /\ avLast.op = "play"
  /\ avLast.wasInit
  /\ avLast.before = "PLAYING"
  /\ avLast.threw
  /\ avLast.err = createPlayerError("media", FALSE)
  /\ avLast.ncalls = <<"getState">>
  /\ timeTrackingInterval
  /\ avState = "error"

\* The events of a step that reach a listener: emit() calls the listeners
\* registered for the event type.
Delivered(events, listeners) ==
  SelectSeq(events, LAMBDA e : e.type \in listeners)

\* C11: after destroy() has returned, no listener is invoked again, whatever
\* native callbacks (pending prepare callbacks, buffering, error, stream
\* completed, polling tick) and on() registrations follow.
C11_NoListenerInvokedAfterDestroy ==
  [][ (avplay /\ ~initialized /\ avLast'.op # "initialize") =>
        Delivered(avLast'.events, eventListeners) = <<>> ]_vars

\* The payloads of the statechange events among events.
StateChanges(events) ==
  LET sc == SelectSeq(events, LAMBDA e : e.type = "statechange")
  IN [i \in 1..Len(sc) |-> sc[i].data]

engVarsButListeners ==
  <<avplay, initialized, avState, volume, muted, currentTime, duration,
    timeTrackingInterval>>

C13_InitializedExactlyOnce ==
  [][ (avplay /\ avLast'.op = "initialize") =>
        /\ avLast'.threw
        /\ UNCHANGED <<engVars, native, prepares>> ]_vars

\* The state reached from old through the statechange payloads, each a
\* change; "" when some event carries no change.
RECURSIVE Follow(_, _)
Follow(old, payloads) ==
  IF payloads = <<>> THEN old
  ELSE IF Head(payloads) = old THEN ""
  ELSE Follow(Head(payloads), Tail(payloads))

\* C14: every change of the state is accompanied, in the same step, by
\* exactly one statechange event carrying the new state: the statechange
\* payloads of a step are the values the state takes in it, in order, with
\* no change missing and no event without a change; a listener registered
\* for statechange receives all of them.
C14_StateChangeEventsMirrorState ==
  [][ /\ Follow(avState, StateChanges(avLast'.events)) = avState'
      /\ "statechange" \in eventListeners =>
           StateChanges(Delivered(avLast'.events, eventListeners))
             = StateChanges(avLast'.events) ]_vars

\* a failing load: idle -> loading -> error, two events in one step
C14_Witness ==
  /\ avLast.op = "load"
  /\ avLast.threw
  /\ avLast.wasInit
  /\ StateChanges(avLast.events) = <<"loading", "error">>
  /\ avState = "error"
  /\ "statechange" \in eventListeners

\* C16: the polling timer is running after every successful play() and is
\* not running after any pause(), stop() or destroy() call has returned,
\* whatever the native state was when it was called.
C16_TimerFollowsPlayPauseStop ==
  /\ (avLast.op = "play" /\ ~avLast.threw) => timeTrackingInterval
  /\ (avLast.op \in {"pause", "stop", "destroy"} /\ ~avLast.threw) =>
       ~timeTrackingInterval

\* C18: on the initialized engine every native fault signalled in a step (a
\* failed native call inside load/play/pause/stop/seek or track selection, a
\* prepare failure, an onerror callback) is surfaced as a rejection of the
\* operation or as an error event; none is swallowed.
C18_NativeFaultsSurfaced ==
  ( /\ avLast.wasInit
    /\ avLast.nfault
    /\ avLast.op \in {"load", "prepareFail", "play", "pause", "stop", "seek",
                      "setAudioTrack", "setSubtitleTrack", "onerror"} )
  => \/ avLast.threw
     \/ \E i \in 1..Len(avLast.events) : avLast.events[i].type = "error"

(***************************************************************************)
(* Properties of the embedded engine with the recovery coordinator,        *)
(* checked under SpecAVR.                                                  *)
(***************************************************************************)
\* The prepare-failure messages of the audio-codec fault vocabulary.
AudioCodecFaults == {"DTS", "audio codec"}

\* C17: a load() that fails in the prepare failure callback with a message of
\* the audio-codec fault vocabulary rejects with unsupported_audio,
\* fatal=false, and recover() on that error returns {success:true,
\* action:skip} at once, no retry started; with any other message it rejects
\* with network, fatal=false, and recover() on that error starts a retry.
C17_AudioCodecFaultSkipsOthersRetry ==
  /\ avLast.op = "prepareFail" =>
       /\ avLast.threw
       /\ avLast.err = IF avLast.arg \in AudioCodecFaults
                         THEN createPlayerError("unsupported_audio", FALSE)
                         ELSE createPlayerError("network", FALSE)
  /\ (last.op = "recover" /\ avLast.op = "prepareFail" /\ last.err = avLast.err) =>
       IF avLast.arg \in AudioCodecFaults
         THEN /\ last.result = RecoveryResult(TRUE, "skip", 0)
              /\ Quiet
         ELSE /\ last.result = Pending
              /\ \E s \in Slots : /\ calls[s].pc = "sleep"
                                  /\ calls[s].ctx = last.ctx

C17_Witness ==
  /\ avLast.op = "prepareFail"
  /\ avLast.arg = "DTS"
  /\ last.op = "recover"
  /\ last.err = createPlayerError("unsupported_audio", FALSE)
  /\ last.result.action = "skip"
  /\ \E c \in Contexts : getAttempts(c) = 2

(***************************************************************************)
(* Properties of the adaptive engine, checked under SpecSH.                *)
(***************************************************************************)
\* C19: a DRM fault the library reports to ShakaPlayerImpl, through a failed
\* load() or through the error callback, is surfaced as an error of kind
\* drm, and recover() on it returns {success:false, action:fail} without a
\* retry.
C19_DrmFaultSurfacedAsDrm ==
  /\ (shLast.op \in {"loadFail", "onError"} /\ shLast.arg = "drm") =>
       shLast.err.type = "drm"
  /\ (last.op = "recover" /\ shLast.arg = "drm" /\ last.err = shLast.err) =>
       (last.result = Fail /\ Quiet)

(***************************************************************************)
(* Properties of the progressive engine, checked under SpecNP.             *)
(***************************************************************************)
\* C15: on the initialized engine setVolume(v), for any v, does not fail,
\* leaves getVolume() = min(1, max(0, v)) and leads to exactly one
\* volumechange event: the one setVolume emits, with no re-emission of the
\* element's volumechange signal for the same call.
C15_SetVolumeClampsOneEvent ==
  /\ (npLast.op = "setVolume" /\ npLast.wasInit) =>
       /\ ~npLast.threw
       /\ npGetVolume = Max(0, Min(10, npLast.arg))
       /\ npLast.events = <<Ev("volumechange", "volume")>>
  /\ (npLast.op = "onvolumechange" /\ npLast.wasInit) =>
       npLast.arg # "setVolume"

(***************************************************************************)
(* Properties of PlayerFactory, checked under SpecFC.                      *)
(***************************************************************************)
\* C20: createPlayer with platform 'tizen' constructs AVPlayPlayerImpl for
\* every stream URL, every detected stream type and every preferredPlayer,
\* and the engine returned is uninitialized with state idle. It never
\* returns another engine: when the AVPlay module cannot be imported the
\* call fails with a fatal unknown error.
C20_TizenAlwaysAVPlay ==
  (fcLast.returned /\ fcLast.platform = "tizen") =>
    IF "AVPlayPlayerImpl" \in fcLast.imports
      THEN /\ fcLast.player = "AVPlayPlayerImpl"
           /\ fcLast.err = NoError
           /\ ~fcLast.initialized
           /\ fcLast.state = "idle"
      ELSE /\ fcLast.player = ""
           /\ fcLast.err = createPlayerError("unknown", TRUE)

\* A DASH url with preferredPlayer 'shaka', every module importable: on the
\* web platform this input gives the Shaka engine.
C20_Witness ==
  /\ fcLast.returned
  /\ fcLast.platform = "tizen"
  /\ fcLast.player = "AVPlayPlayerImpl"
  /\ detectStreamType(fcLast.streamUrl) = "dash"
  /\ fcLast.preferredPlayer = "shaka"
  /\ fcLast.imports = EngineModules
  /\ selectPlayer(fcLast.streamUrl, "web", "shaka", EngineModules)
       = Created("ShakaPlayerImpl")

\* C21: on the web platform, when the Shaka module is available and the
\* caller did not prefer 'hls', createPlayer returns ShakaPlayerImpl for
\* every URL whose detected type is hls or dash, whichever rule ('.m3u8',
\* '.m3u' or the default) classified it.
C21_WebPrefersShaka ==
  ( /\ fcLast.returned
    /\ fcLast.platform = "web"
    /\ "ShakaPlayerImpl" \in fcLast.imports
    /\ fcLast.preferredPlayer # "hls"
    /\ detectStreamType(fcLast.streamUrl) \in {"hls", "dash"} )
  => ( fcLast.player = "ShakaPlayerImpl" /\ fcLast.err = NoError )

\* C22: on the web platform, when the Shaka module is not available,
\* createPlayer returns HLSPlayerImpl for every URL whose detected type is
\* hls or dash; it does not fail.
C22_WebFallsBackToHls ==
  ( /\ fcLast.returned
    /\ fcLast.platform = "web"
    /\ "ShakaPlayerImpl" \notin fcLast.imports
    /\ "HLSPlayerImpl" \in fcLast.imports
    /\ detectStreamType(fcLast.streamUrl) \in {"hls", "dash"} )
  => ( fcLast.player = "HLSPlayerImpl" /\ fcLast.err = NoError )

\* PlayerFactory.canPlayStream(streamUrl, platform)
canPlayStream(streamUrl, platform) ==
  IF platform = "tizen"
    THEN detectStreamType(streamUrl) \in {"hls", "progressive"}
    ELSE platform = "web"

\* C23: on the web platform canPlayStream is true for every URL, and
\* createPlayer returns an engine for every URL and every preferredPlayer
\* whenever the engine modules can be loaded; it never fails with
\* unsupported_format there.
C23_WebAlwaysCreates ==
  /\ fcLast.platform = "web" => canPlayStream(fcLast.streamUrl, "web")
  /\ ( /\ fcLast.returned
       /\ fcLast.platform = "web"
       /\ fcLast.imports = EngineModules )
     => ( /\ fcLast.player # ""
          /\ fcLast.err = NoError )

\* String.prototype.endsWith
endsWith(url, ext) ==
  /\ Len(ext) <= Len(url)
  /\ SubSeq(url, Len(url) - Len(ext) + 1, Len(url)) = ext

\* C24: detectStreamType, case-insensitively and in this order, gives hls
\* when the URL contains '.m3u8' or '.m3u', else dash when it contains
\* '.mpd', else progressive only when the URL ends with '.mp4', '.webm' or
\* '.ogg', and hls for every other URL.
C24_DetectStreamType ==
  LET url == urlToLowerCase(fcLast.streamUrl) IN
  fcLast.returned =>
  detectStreamType(fcLast.streamUrl) =
    IF includes(url, <<".m3u", "8">>) \/ includes(url, <<".m3u">>) THEN "hls"
    ELSE IF includes(url, <<".mpd">>) THEN "dash"
    ELSE IF \E ext \in {<<".mp4">>, <<".webm">>, <<".ogg">>} :
              endsWith(url, ext)
      THEN "progressive"
    ELSE "hls"

\* C25: classifyMediaError maps the native fault codes to: aborted ->
\* media, non-fatal; network -> network, non-fatal; decode -> media, fatal;
\* source not supported -> unsupported_format, fatal; any other code and an
\* absent fault -> unknown, non-fatal. The error the engine emits for an
\* element fault is that result.
C25_ClassifyMediaError ==
  npLast.op = "onerror" =>
    /\ npLast.arg = "MEDIA_ERR_ABORTED" =>
         npLast.err = [type |-> "media", fatal |-> FALSE]
    /\ npLast.arg = "MEDIA_ERR_NETWORK" =>
         npLast.err = [type |-> "network", fatal |-> FALSE]
    /\ npLast.arg = "MEDIA_ERR_DECODE" =>
         npLast.err = [type |-> "media", fatal |-> TRUE]
    /\ npLast.arg = "MEDIA_ERR_SRC_NOT_SUPPORTED" =>
         npLast.err = [type |-> "unsupported_format", fatal |-> TRUE]
    /\ npLast.arg \in {"null", "other"} =>
         npLast.err = [type |-> "unknown", fatal |-> FALSE]
    /\ npLast.events[Len(npLast.events)] = Ev("error", npLast.err)

C25_Witness ==
  /\ npLast.op = "onerror"
  /\ npLast.arg = "MEDIA_ERR_DECODE"
  /\ npLast.err = [type |-> "media", fatal |-> TRUE]
  /\ npState = "error"

(***************************************************************************)
(* Further properties of the recovery coordinator, checked under Spec.     *)
(***************************************************************************)
\* C26: for every error kind and both values of the fatal flag,
\* getErrorRecoveryStrategy returns fail when fatal is true and otherwise
\* network -> retry, media -> retry, drm -> fail, unsupported_audio -> skip,
\* unsupported_format -> fallback, timeout -> retry, unknown -> fail; and
\* isRecoverableError is true exactly when the error is non-fatal and that
\* verb is retry, skip or fallback.
C26_StrategyTable ==
  LET error == last.err
      verb == CASE error.type \in {"network", "media", "timeout"} -> "retry"
                [] error.type = "unsupported_audio" -> "skip"
                [] error.type = "unsupported_format" -> "fallback"
                [] OTHER -> "fail"
  IN last.op = "recover" =>
       /\ getErrorRecoveryStrategy(error) =
            IF error.fatal THEN "fail" ELSE verb
       /\ isRecoverableError(error) <=>
            (~error.fatal /\ verb \in {"retry", "skip", "fallback"})

\* C27: clearAll() drops every tracked context (isRetrying is false and
\* getAttempts is 0 for every context right after it) and does not interrupt
\* a recover() call that is waiting: when the wait ends the call invokes
\* retryFn and returns its normal result, and no completion of a call
\* creates a RetryState, so isRetrying stays false until a new recover().
C27_ClearAllDoesNotInterrupt ==
  [][ /\ last'.op = "clearAll" =>
           /\ \A c \in Contexts : ~isRetrying(c)' /\ getAttempts(c)' = 0
           /\ calls' = calls
      /\ last'.op = "sleepDone" =>
           \E s \in Slots :
             /\ calls[s].pc = "sleep"
             /\ calls' = [calls EXCEPT ![s].pc = "retry",
                                       ![s].waited = calls[s].delay]
      /\ last'.op = "retryOk" =>
           last'.result = RecoveryResult(TRUE, "retry", 0)
      /\ last'.op = "retryFail" =>
           \E s \in Slots :
             /\ calls[s].pc = "retry"
             /\ calls'[s] = IdleCall
             /\ last'.result =
                  IF config.maxAttempts - heap[calls[s].obj].attempts > 0
                    THEN RecoveryResult(FALSE, "retry",
                                        heap[calls[s].obj].attempts + 1)
                    ELSE Fail
      /\ last'.op \in {"clearAll", "sleepDone", "retryOk", "retryFail"} =>
           \A c \in Contexts : ~isRetrying(c) => ~isRetrying(c)'
    ]_vars

\* The wait of a call has ended and it is in retryFn, although clearAll()
\* dropped its RetryState while it waited: the context is not tracked.
C27_Witness ==
  /\ last.op = "sleepDone"
  /\ ~isRetrying(last.ctx)
  /\ ~clean[last.ctx]
  /\ \E s \in Slots : calls[s].pc = "retry" /\ calls[s].ctx = last.ctx

(***************************************************************************)
(* Properties of two coordinators, checked under SpecXY.                   *)
(***************************************************************************)
\* C28: a recover() call on context A of coordinator X, at its entry and at
\* each of its continuations, leaves getAttempts, isRetrying and the next
\* backoff delay of every other context of X unchanged, and leaves every
\* context of another coordinator Y unchanged.
C28_RetryStateScopedPerContext ==
  [][ last'.op \in {"recover", "sleepDone", "retryOk", "retryFail"} =>
        /\ \A c \in Contexts \ {last'.ctx} :
             /\ getAttempts(c)' = getAttempts(c)
             /\ isRetrying(c)' = isRetrying(c)
             /\ isRetrying(c) =>
                  heap'[retryStates'[c]].nextDelay
                    = heap[retryStates[c]].nextDelay
        /\ retryStatesY' = retryStatesY
    ]_vars

\* The last retry of context a has failed and dropped its RetryState while
\* context b of the same coordinator and both contexts of Y are tracked.
C28_Witness ==
  /\ last.op = "retryFail"
  /\ last.ctx = "a"
  /\ last.result = Fail
  /\ ~isRetrying("a")
  /\ getAttempts("b") >= 1
  /\ \E s \in Slots : calls[s].pc # "idle" /\ calls[s].ctx = "b"
  /\ \A c \in Contexts : retryStatesY[c] = TrackedOnce

(***************************************************************************)
(* Further properties of the embedded engine, checked under SpecAV.        *)
(***************************************************************************)
\* The native state in which the i-th native call of a step was issued, the
\* step having found the native player in state n.
RECURSIVE NativeAt(_, _, _)
NativeAt(n, ncalls, i) ==
  IF i = 1 THEN n
  ELSE NativeAfter(ncalls[i - 1], NativeAt(n, ncalls, i - 1))

\* C29: across any sequence of operations on the initialized engine, the
\* native open call is issued only while the native state is NONE or IDLE
\* (load() first closes a stream that is READY, PLAYING or PAUSED), and the
\* native calls play, pause and stop are issued only in the native states
\* from which the transition table allows them.
C29_NativeCallsOnlyWhenLegal ==
  avLast.wasInit =>
    \A i \in 1..Len(avLast.ncalls) :
      avLast.ncalls[i] \in {"open", "play", "pause", "stop"} =>
        NativeAt(avLast.before, avLast.ncalls, i)
          \in NativeLegal(avLast.ncalls[i])

(***************************************************************************)
(* Properties of the adaptive engine's quality selection, under SpecSQ.    *)
(***************************************************************************)
\* C30: on the initialized Shaka engine, a setQuality(null) or
\* enableAdaptiveBitrate(true) call leaves automatic bitrate selection
\* enabled, a setQuality(id) with a non-null id or enableAdaptiveBitrate(false)
\* leaves it disabled, and no other operation on the initialized engine
\* changes it; each setQuality call emits exactly one qualitychange event
\* carrying the id it was given.
C30_AbrFollowsLastCall ==
  [][ /\ (shLast'.op = "setQuality" /\ shLast'.wasInit) =>
           /\ shAbr' = (shLast'.arg = "null")
           /\ shLast'.events = <<Ev("qualitychange", shLast'.arg)>>
      /\ (shLast'.op = "enableAdaptiveBitrate" /\ shLast'.wasInit) =>
           shAbr' = (shLast'.arg = "true")
      /\ shLast'.op \notin {"setQuality", "enableAdaptiveBitrate", "initialize"}
           => shAbr' = shAbr
    ]_vars

\* ---------------------------------------------------------------------
\* C31: seek(t) hands floor(1000 * t) milliseconds to the native seek and
\* keeps t as the current time; getCurrentTime() and the duration read at
\* prepare time are the native milliseconds divided by 1000; and for a
\* whole number of seconds t, seek(t) followed by getCurrentTime(), the
\* native player reporting the position it was given, returns t.
C31_SeekRoundTrip ==
  [][/\ (avLast'.op = "seek" /\ ~avLast'.threw) =>
          /\ 2 * avLast'.ms <= currentTime'
          /\ currentTime' < 2 * (avLast'.ms + 1)
          /\ currentTime' \in SeekInputs
     /\ (avLast'.op = "getCurrentTime" /\ avLast'.ms >= 0) =>
          currentTime' = 2 * avLast'.ms
     /\ (avLast'.op = "prepareOk" /\ avLast'.ms >= 0) =>
          duration' = 2 * avLast'.ms
     /\ (/\ avLast.op = "seek" /\ ~avLast.threw
         /\ currentTime % 2000 = 0
         /\ avLast'.op = "getCurrentTime"
         /\ avLast'.ms = avLast.ms) =>
          currentTime' = currentTime]_vars

\* A seek to a whole number of seconds went through to the native player.
C31_Witness ==
  /\ avLast.op = "seek" /\ ~avLast.threw
  /\ currentTime = 4000 /\ avLast.ms = 2000

\* ---------------------------------------------------------------------
\* C32: with recover() calls overlapping on one context, getAttempts of a
\* context never exceeds maxAttempts, and when a call returns action 'retry'
\* with nextAttempt = n the RetryState of its context still exists and
\* getAttempts is at least n - 1: no finishing call has deleted or reset the
\* RetryState the returning call relies on.
C32_OverlapKeepsRetryState ==
  /\ \A c \in Contexts : getAttempts(c) <= config.maxAttempts
  /\ (/\ last.op \in {"recover", "retryOk", "retryFail"}
      /\ last.result.action = "retry"
      /\ ~last.result.success) =>
        /\ isRetrying(last.ctx)
        /\ getAttempts(last.ctx) >= last.result.nextAttempt - 1

\* ---------------------------------------------------------------------
\* C33: when load(B) is called while load(A) is pending, the completion of A
\* (success or failure) does not change the PlaybackState; the state leaves
\* loading only through the completion of the most recent load. The
\* library settles its load() promises in the order of the calls (a new
\* load interrupts the one in progress, which rejects first), so a
\* completion that arrives while two loads are pending is the older one's.
C33_StaleLoadLeavesState ==
  [][(/\ shLast'.op \in {"loadOk", "loadFail"}
      /\ shLoads >= 2
      /\ shLoads' = shLoads - 1) => shState' = shState]_vars

\* ---------------------------------------------------------------------
\* C34: the polling timer is running only while the PlaybackState is
\* playing or buffering, and a timeupdate tick is emitted only then: not in
\* idle, loading, paused, error or ended, in particular not after a native
\* onerror callback during playback or a load() while a stream is playing.
C34_TimerOnlyWhilePlaying ==
  /\ timeTrackingInterval => avState \in {"playing", "buffering"}
  /\ avLast.op = "tick" => avState \in {"playing", "buffering"}

\* C35: on the initialized engine getState() is 'playing' only while the
\* native state is PLAYING; a buffering-start followed by a
\* buffering-complete callback that arrives while the engine is loading or
\* paused never makes it report playing.
C35_PlayingOnlyWhileNativePlaying ==
  (initialized /\ avState = "playing") => native = "PLAYING"

\* ---------------------------------------------------------------------
\* C36: on the segment-only engine initialized with autoPlay disabled, the
\* PlaybackState never becomes playing between a load() and the first
\* play() call, whatever buffer callbacks the library delivers; and load()
\* leaves the state loading until the source is ready or has failed.
C36_NoPlayingBeforePlay ==
  /\ (/\ hlsInitialized /\ ~hlsAutoplay
      /\ hlsSource # "none" /\ ~hlsPlayed) => hlsState # "playing"
  /\ (hlsLast.op = "load" /\ hlsSource = "pending") => hlsState = "loading"

\* ---------------------------------------------------------------------
\* C37: with maxAttempts >= 1 and the recover() calls of a context made one
\* after another, whenever no call of the context is in flight a tracked
\* context has 1 <= getAttempts <= maxAttempts - 1, and isRetrying is true
\* exactly for the contexts whose last recover() returned action 'retry'
\* with success false.
C37_TrackedIffLastReturnedRetry ==
  \A c \in Contexts :
    (config.maxAttempts >= 1 /\ InFlight(c) = {}) =>
      /\ isRetrying(c) =>
           /\ 1 <= getAttempts(c)
           /\ getAttempts(c) <= config.maxAttempts - 1
      /\ (/\ last.ctx = c
          /\ last.op \in {"recover", "retryOk", "retryFail"}) =>
           (isRetrying(c) <=>
              (last.result.action = "retry" /\ ~last.result.success))

\* C37, amended: the bounds hold as stated, and a tracked context has had as
\* many failed retries as attempts; isRetrying is true exactly for the
\* contexts whose last recover() on the retry path returned action 'retry'
\* with success false, clearAll() not having been called since the
\* RetryState was created. A recover() that returns at once (fail, skip,
\* fallback) leaves the context tracked or untracked as it was.
C37_TrackedIffLastRetryPathReturnedRetry ==
  \A c \in Contexts :
    (config.maxAttempts >= 1 /\ InFlight(c) = {}) =>
      /\ isRetrying(c) =>
           /\ 1 <= getAttempts(c)
           /\ getAttempts(c) <= config.maxAttempts - 1
      /\ (isRetrying(c) /\ clean[c]) => fails[c] = getAttempts(c)
      /\ (/\ last.ctx = c /\ clean[c]
          /\ \/ last.op \in {"retryOk", "retryFail"}
             \/ last.op = "recover" /\ IsRetryVerb(last.err)) =>
           (isRetrying(c) <=>
              (last.result.action = "retry" /\ ~last.result.success))

\* A context left tracked at the last attempt but one, no call in flight.
C37_Witness ==
  /\ last.op = "retryFail" /\ clean[last.ctx]
  /\ InFlight(last.ctx) = {}
  /\ isRetrying(last.ctx)
  /\ config.maxAttempts >= 3
  /\ getAttempts(last.ctx) = config.maxAttempts - 1
  /\ last.result = RecoveryResult(FALSE, "retry", config.maxAttempts)

\* ---------------------------------------------------------------------
\* AVPlayPlayerImpl.canPlayStream
avCanPlayStream(streamUrl) ==
  LET url == urlToLowerCase(streamUrl) IN
  includes(url, <<".m3u", "8">>) \/ endsWith(url, <<".mp4">>)

\* HLSPlayerImpl.canPlayStream
hlsCanPlayStream(streamUrl) ==
  includes(urlToLowerCase(streamUrl), <<".m3u", "8">>)

\* NativePlayerImpl.canPlayStream
npCanPlayStream(streamUrl) ==
  LET url == urlToLowerCase(streamUrl) IN
  endsWith(url, <<".mp4">>) \/ endsWith(url, <<".webm">>)
    \/ endsWith(url, <<".ogg">>)

\* C38: whenever createPlayer returns an engine, the engine's own
\* canPlayStream(url) is true; and PlayerFactory.canPlayStream(url, platform)
\* is true exactly when the engine createPlayer constructs for that
\* platform and URL (the engine modules being loadable) reports
\* canPlayStream(url) true.
C38_SelectorAndEnginesAgree ==
  LET url == fcLast.streamUrl
      enginePlays ==
        CASE fcLast.player = "AVPlayPlayerImpl" -> avCanPlayStream(url)
          [] fcLast.player = "ShakaPlayerImpl" -> shCanPlayStream(url)
          [] fcLast.player = "HLSPlayerImpl" -> hlsCanPlayStream(url)
          [] fcLast.player = "NativePlayerImpl" -> npCanPlayStream(url)
          [] OTHER -> FALSE
  IN fcLast.returned =>
       /\ fcLast.player # "" => enginePlays
       /\ fcLast.imports = EngineModules =>
            (canPlayStream(url, fcLast.platform) <=> enginePlays)

\* ---------------------------------------------------------------------
\* C39: if the VideoPlayer component unmounts at any point of its start-up,
\* every engine the start-up created is destroyed once initPlayer() has
\* run to its end, and no engine is initialized, loaded or played after the
\* unmount.
C39_UnmountDestroysEngine ==
  /\ (vpPc = "done" /\ ~vpMounted /\ vpEngine.created) => vpEngine.destroyed
  /\ vpLast.op \in {"initialize", "load", "play"} => vpLast.mounted

====
